---- MODULE Spec2Model ----
(***************************************************************************)
(* A model of the chess rules engine of chess-tui (src/src/board.rs and    *)
(* src/src/pieces): the Board structure, its user-facing operations        *)
(* (select_cell, the cursor operations, unselect_cell, takeback), the move *)
(* application move_piece and the termination queries.  Every operation of *)
(* Board is an operator from a Board value to a Board value; the actions   *)
(* apply these operators to the state variables.                           *)
(***************************************************************************)
EXTENDS Integers, Sequences, FiniteSets, TLC

VARIABLES
    board,                            \* the 8x8 grid, board[row][col]
    cursor_coordinates,
    selected_coordinates,
    selected_piece_cursor,
    old_cursor_position,
    player_turn,
    move_history,
    is_draw,
    is_checkmate,
    is_promotion,
    promotion_cursor,
    consecutive_non_pawn_or_capture,
    is_game_against_bot,
    panicked,                         \* the process was ended by a panic
    call,                             \* the last operation called on the Board
    plies                             \* the number of plies applied so far

vars == <<board, cursor_coordinates, selected_coordinates, selected_piece_cursor,
          old_cursor_position, player_turn, move_history, is_draw, is_checkmate,
          is_promotion, promotion_cursor, consecutive_non_pawn_or_capture,
          is_game_against_bot, panicked, call, plies>>

----------------------------------------------------------------------------
(* Pieces and colors *)

White == "White"
Black == "Black"
Pawn == "Pawn"
Knight == "Knight"
Bishop == "Bishop"
Rook == "Rook"
Queen == "Queen"
King == "King"

PieceColor == {White, Black}
PieceType == {Pawn, Knight, Bishop, Rook, Queen, King}

\* Option::None of a cell, of a kind or of a color
None == [kind |-> "None", color |-> "None"]
NoKind == "None"
NoColor == "None"
Some(kind, color) == [kind |-> kind, color |-> color]

opposite(color) == IF color = White THEN Black ELSE White

----------------------------------------------------------------------------
(* Coordinates *)

UNDEFINED_POSITION == -1

\* Coords::new: the components are kept if both lie in [-2, 9], else a panic
CoordsInRange_valid(row, col) == row >= 0 /\ row <= 7 /\ col >= 0 /\ col <= 7
CoordsInRange(row, col) == row >= -2 /\ row <= 9 /\ col >= -2 /\ col <= 9
Coords(row, col) == [col |-> col, row |-> row]
CoordsDefault == [col |-> UNDEFINED_POSITION, row |-> UNDEFINED_POSITION]

\* Coords::new, with its panics
Coords_new(row, col) ==
    IF CoordsInRange(row, col) THEN [panicked |-> FALSE, coords |-> Coords(row, col)]
    ELSE [panicked |-> TRUE, coords |-> CoordsDefault]
is_valid(c) == c.row >= 0 /\ c.row < 8 /\ c.col >= 0 /\ c.col < 8

\* the derived Ord of Coords: the fields are compared in declaration order,
\* col first and row second
CoordsLess(a, b) == a.col < b.col \/ (a.col = b.col /\ a.row < b.row)

\* decimal characters
DigitChars == <<"0", "1", "2", "3", "4", "5", "6", "7", "8", "9">>
\* format!("{}", n) of a small integer
itoa(n) == IF n < 0 THEN <<"-", DigitChars[(0 - n) + 1]>> ELSE <<DigitChars[n + 1]>>
\* chtoi: the digit value of a character
chtoi(ch) == CHOOSE d \in 0..9 : DigitChars[d + 1] = ch

to_hist(c) == itoa(c.row) \o itoa(c.col)
from_hist(item) == Coords(chtoi(item[1]), chtoi(item[2]))

\* a history record: the kind that moved and the 4 character move code
HistRec(kind, code) == [kind |-> kind, code |-> code]
\* &code[a..b] of the move code, 0-based and end-exclusive as in the source
Slice(code, a, b) == SubSeq(code, a + 1, b)

----------------------------------------------------------------------------
(* Grid access *)

get(b, c) == b[c.row][c.col]
set(b, c, piece) == [b EXCEPT ![c.row][c.col] = piece]
get_piece_color(b, c) == IF is_valid(c) THEN b[c.row][c.col].color ELSE NoColor
get_piece_type(b, c) == IF is_valid(c) THEN b[c.row][c.col].kind ELSE NoKind
is_cell_color_ally(b, c, color) == get_piece_color(b, c) = color
is_piece_opposite_king(piece, color) ==
    piece.kind = King /\ piece.color = opposite(color)

\* cleaned_positions: keeps the valid coordinates
cleaned_positions(positions) == SelectSeq(positions, is_valid)

Range(s) == {s[i] : i \in 1..Len(s)}

----------------------------------------------------------------------------
(* Piece move generators *)

\* One ray of a sliding piece, from the square at distance i on: the loop
\* body of Bishop::piece_move for the direction (dy, dx)
RECURSIVE Ray(_, _, _, _, _, _, _, _)
Ray(b, y, x, dy, dx, i, color, allow_move_on_ally_positions) ==
    IF i >= 8 THEN <<>>
    ELSE LET new_coordinates == Coords(y + dy * i, x + dx * i) IN
         IF ~is_valid(new_coordinates) THEN <<>>
         ELSE IF get_piece_color(b, new_coordinates) = NoColor
              THEN <<new_coordinates>>
                   \o Ray(b, y, x, dy, dx, i + 1, color, allow_move_on_ally_positions)
         ELSE IF is_cell_color_ally(b, new_coordinates, color)
              THEN (IF ~allow_move_on_ally_positions THEN <<>> ELSE <<new_coordinates>>)
         ELSE IF ~allow_move_on_ally_positions
                 \/ ~is_piece_opposite_king(get(b, new_coordinates), color)
              THEN <<new_coordinates>>
         ELSE <<new_coordinates>>
              \o Ray(b, y, x, dy, dx, i + 1, color, allow_move_on_ally_positions)

\* Bishop::piece_move without the diagonal to the top right
BishopMove_three_rays(c, color, b, allow) ==
    cleaned_positions(
        Ray(b, c.row, c.col, -1, -1, 1, color, allow)
        \o Ray(b, c.row, c.col, 1, 1, 1, color, allow)
        \o Ray(b, c.row, c.col, 1, -1, 1, color, allow))

\* Bishop::piece_move: top left, bottom right, bottom left, top right
BishopMove(c, color, b, allow) ==
    cleaned_positions(
        Ray(b, c.row, c.col, -1, -1, 1, color, allow)
        \o Ray(b, c.row, c.col, 1, 1, 1, color, allow)
        \o Ray(b, c.row, c.col, 1, -1, 1, color, allow)
        \o Ray(b, c.row, c.col, -1, 1, 1, color, allow))

\* the 8 offsets of Knight::piece_move, as Coords::new(row, col)
KnightOffsets ==
    <<Coords(-2, -1), Coords(-2, 1), Coords(-1, -2), Coords(-1, 2),
      Coords(1, -2), Coords(1, 2), Coords(2, -1), Coords(2, 1)>>

KnightTarget(c, k) == Coords(c.row + KnightOffsets[k].row, c.col + KnightOffsets[k].col)

RECURSIVE KnightLoop(_, _, _, _, _)
KnightLoop(c, color, b, allow, k) ==
    IF k > Len(KnightOffsets) THEN <<>>
    ELSE LET new_coordinates == KnightTarget(c, k) IN
         IF ~is_valid(new_coordinates)
         THEN KnightLoop(c, color, b, allow, k + 1)
         ELSE IF is_cell_color_ally(b, new_coordinates, color) /\ ~allow
         THEN KnightLoop(c, color, b, allow, k + 1)
         ELSE <<new_coordinates>> \o KnightLoop(c, color, b, allow, k + 1)

\* Knight::piece_move that never skips an ally
KnightMove_allies(c, color, b, allow) == cleaned_positions(KnightLoop(c, color, b, TRUE, 1))

KnightMove(c, color, b, allow) == cleaned_positions(KnightLoop(c, color, b, allow, 1))

\* Rook: the four orthogonal rays, scanned as the bishop's diagonals
RookMove(c, color, b, allow) ==
    cleaned_positions(
        Ray(b, c.row, c.col, 0, 1, 1, color, allow)
        \o Ray(b, c.row, c.col, 0, -1, 1, color, allow)
        \o Ray(b, c.row, c.col, 1, 0, 1, color, allow)
        \o Ray(b, c.row, c.col, -1, 0, 1, color, allow))

\* Queen: the union of the rook's and the bishop's rays
QueenMove(c, color, b, allow) == RookMove(c, color, b, allow) \o BishopMove(c, color, b, allow)

\* Pawn: direction -1 for White (towards row 0), +1 for Black
PawnDirection(color) == IF color = White THEN -1 ELSE 1
PawnStartRow(color) == IF color = White THEN 6 ELSE 1

PawnFront(c, color, b, allow) ==
    LET d == PawnDirection(color)
        one == Coords(c.row + d, c.col)
        two == Coords(c.row + 2 * d, c.col)
    IN IF is_valid(one) /\ ~allow /\ get_piece_color(b, one) = NoColor
       THEN <<one>> \o (IF is_valid(two) /\ get_piece_color(b, two) = NoColor
                           /\ c.row = PawnStartRow(color)
                        THEN <<two>> ELSE <<>>)
       ELSE <<>>

PawnDiagonal(c, color, b, allow, dx) ==
    LET t == Coords(c.row + PawnDirection(color), c.col + dx) IN
    IF ~is_valid(t) THEN <<>>
    ELSE IF allow THEN <<t>>
    ELSE IF get_piece_color(b, t) # NoColor /\ ~is_cell_color_ally(b, t, color)
         THEN <<t>> ELSE <<>>

\* en passant: the last record is an opposing pawn's two square advance from
\* its start row that landed beside this pawn
PawnEnPassant(c, color, history) ==
    IF history = <<>> THEN <<>>
    ELSE LET latest == history[Len(history)]
             from_y == chtoi(latest.code[1])
             from_x == chtoi(latest.code[2])
             to_y == chtoi(latest.code[3])
             to_x == chtoi(latest.code[4])
             d == PawnDirection(color)
         IN IF latest.kind = Pawn
               /\ from_y = PawnStartRow(opposite(color))
               /\ to_y - from_y = 2 * (0 - d)
               /\ c.row = to_y
               /\ (c.col = to_x - 1 \/ c.col = to_x + 1)
            THEN <<Coords(from_y - d, from_x)>>
            ELSE <<>>

PawnMove(c, color, b, allow, history) ==
    cleaned_positions(
        PawnFront(c, color, b, allow)
        \o PawnDiagonal(c, color, b, allow, 1)
        \o PawnDiagonal(c, color, b, allow, -1)
        \o PawnEnPassant(c, color, history))

\* King: the adjacent squares, ally filtered
KingSteps ==
    <<Coords(-1, -1), Coords(-1, 0), Coords(-1, 1), Coords(0, -1), Coords(0, 0),
      Coords(0, 1), Coords(1, -1), Coords(1, 0), Coords(1, 1)>>

RECURSIVE KingLoop(_, _, _, _, _)
KingLoop(c, color, b, allow, k) ==
    IF k > Len(KingSteps) THEN <<>>
    ELSE LET new_coordinates == Coords(c.row + KingSteps[k].row, c.col + KingSteps[k].col) IN
         IF is_valid(new_coordinates)
            /\ (~is_cell_color_ally(b, new_coordinates, color) \/ allow)
         THEN <<new_coordinates>> \o KingLoop(c, color, b, allow, k + 1)
         ELSE KingLoop(c, color, b, allow, k + 1)

KingMove(c, color, b, allow) == cleaned_positions(KingLoop(c, color, b, allow, 1))

\* PieceType::piece_move, dispatched on the kind
piece_move(kind, c, color, b, allow, history) ==
    CASE kind = Pawn -> PawnMove(c, color, b, allow, history)
      [] kind = Knight -> KnightMove(c, color, b, allow)
      [] kind = Bishop -> BishopMove(c, color, b, allow)
      [] kind = Rook -> RookMove(c, color, b, allow)
      [] kind = Queen -> QueenMove(c, color, b, allow)
      [] kind = King -> KingMove(c, color, b, allow)
      [] OTHER -> <<>>

\* Bishop::protected_positions that stops like a move
BishopProtected_strict(c, color, b) == BishopMove(c, color, b, FALSE)

\* Bishop::protected_positions and Knight::protected_positions
BishopProtected(c, color, b) == BishopMove(c, color, b, TRUE)
KnightProtected(c, color, b) == KnightMove(c, color, b, TRUE)

\* protected_positions: piece_move with allow_move_on_ally_positions = true
protected_positions(kind, c, color, b, history) ==
    CASE kind = Bishop -> BishopProtected(c, color, b)
      [] kind = Knight -> KnightProtected(c, color, b)
      [] OTHER -> piece_move(kind, c, color, b, TRUE, history)

----------------------------------------------------------------------------
(* Check detection *)

Squares == {Coords(r, c) : r \in 0..7, c \in 0..7}

\* get_king_coordinates: the first king of the color in row-major order, or
\* the undefined coordinates
get_king_coordinates(b, color) ==
    LET kings == {c \in Squares : get(b, c) = Some(King, color)} IN
    IF kings = {} THEN CoordsDefault
    ELSE CHOOSE k \in kings :
            \A o \in kings : k.row < o.row \/ (k.row = o.row /\ k.col <= o.col)

\* get_all_protected_cells: every square protected by a piece that is not of
\* the given color
get_all_protected_cells(b, color, history) ==
    UNION {Range(protected_positions(get(b, c).kind, c, get(b, c).color, b, history)) :
              c \in {q \in Squares : get(b, q) # None /\ get(b, q).color # color}}

\* is_getting_checked that counts the pieces of both colors
is_getting_checked_by_any(b, color, history) ==
    get_king_coordinates(b, color)
        \in UNION {Range(protected_positions(get(b, c).kind, c, get(b, c).color, b, history)) :
                      c \in {q \in Squares : get(b, q) # None}}

is_getting_checked(b, color, history) ==
    get_king_coordinates(b, color) \in get_all_protected_cells(b, color, history)

\* did_piece_already_move: some record of this kind starts on this square
did_piece_already_move(history, kind, c) ==
    \E i \in 1..Len(history) :
        history[i].kind = kind /\ Slice(history[i].code, 0, 2) = to_hist(c)

----------------------------------------------------------------------------
(* The Board *)

\* rows of Board::default(), row 0 first
BackRow(color) ==
    <<Some(Rook, color), Some(Knight, color), Some(Bishop, color), Some(Queen, color),
      Some(King, color), Some(Bishop, color), Some(Knight, color), Some(Rook, color)>>
PawnRow(color) == [i \in 1..8 |-> Some(Pawn, color)]
EmptyRow == [i \in 1..8 |-> None]

\* a grid from its 8 rows of 8 cells; rows and columns are numbered from 0
Grid(rows) == [r \in 0..7 |-> [c \in 0..7 |-> rows[r + 1][c + 1]]]

DefaultGrid ==
    Grid(<<BackRow(Black), PawnRow(Black), EmptyRow, EmptyRow,
           EmptyRow, EmptyRow, PawnRow(White), BackRow(White)>>)

\* Board::new
BoardNew(b, turn, history) ==
    [board |-> b,
     cursor_coordinates |-> Coords(4, 4),
     selected_coordinates |-> CoordsDefault,
     selected_piece_cursor |-> 0,
     old_cursor_position |-> CoordsDefault,
     player_turn |-> turn,
     move_history |-> history,
     is_draw |-> FALSE,
     is_checkmate |-> FALSE,
     is_promotion |-> FALSE,
     promotion_cursor |-> 0,
     consecutive_non_pawn_or_capture |-> 0,
     is_game_against_bot |-> FALSE,
     panicked |-> FALSE]

\* Board::default()
BoardDefault == BoardNew(DefaultGrid, White, <<>>)

Panic(s) == [s EXCEPT !.panicked = TRUE]

is_cell_selected(s) ==
    s.selected_coordinates.row # UNDEFINED_POSITION
    /\ s.selected_coordinates.col # UNDEFINED_POSITION

switch_player_turn(s) == [s EXCEPT !.player_turn = opposite(s.player_turn)]

\* an en passant test that asks for an occupied instead of an empty destination
is_latest_move_en_passant_taking(s, from, to) ==
    get_piece_type(s.board, from) = Pawn
    /\ from.row # to.row /\ from.col # to.col /\ get(s.board, to) # None

is_latest_move_en_passant(s, from, to) ==
    get_piece_type(s.board, from) = Pawn
    /\ from.row # to.row /\ from.col # to.col /\ get(s.board, to) = None

Abs(n) == IF n < 0 THEN 0 - n ELSE n

is_latest_move_castling(s, from, to) ==
    get_piece_type(s.board, from) = King /\ Abs(from.col - to.col) > 1

\* The castling branch of move_piece on the grid b: the king goes two columns
\* towards `to`, the rook is copied from column to_x to column 5 or 3 and
\* column to_x is emptied
\* the castling of move_piece without the corner of the engine's notation
CastleGrid_as_passed(s, b, from, to) ==
    LET distance == from.col - to.col
        direction_x == IF distance > 0 THEN -1 ELSE 1
        row_index == from.col + direction_x * 2
        row_index_rook == IF distance < 0 THEN 5 ELSE 3
        b1 == set(b, Coords(to.row, row_index), get(b, from))
        b2 == [b1 EXCEPT ![to.row][row_index_rook] = b1[to.row][to.col]]
    IN [b2 EXCEPT ![to.row][to.col] = None]

CastleGrid(s, b, from, to) ==
    LET distance == from.col - to.col
        direction_x == IF distance > 0 THEN -1 ELSE 1
        row_index == from.col + direction_x * 2
        row_index_rook == IF distance < 0 THEN 5 ELSE 3
        to_x == IF s.is_game_against_bot /\ s.player_turn = Black
                THEN (IF distance < 0 THEN 7 ELSE 0)
                ELSE to.col
        b1 == set(b, Coords(to.row, row_index), get(b, from))
        b2 == [b1 EXCEPT ![to.row][row_index_rook] = b1[to.row][to_x]]
    IN [b2 EXCEPT ![to.row][to_x] = None]

\* the destination of a castling recorded as it was passed to move_piece
CastleKingCol_passed(from, to) == to.col
CastleKingCol(from, to) == from.col + (IF from.col - to.col > 0 THEN -1 ELSE 1) * 2

\* the counter of the 50-move rule after a move from `from` to `to`
NextCounter(s, from, to) ==
    LET piece_type_from == get_piece_type(s.board, from)
        piece_type_to == get_piece_type(s.board, to)
    IN IF piece_type_from = Pawn \/ (piece_type_from # NoKind /\ piece_type_to # NoKind)
       THEN 0
       ELSE s.consecutive_non_pawn_or_capture + 1

\* a move_piece without the validity test of its first lines: every call counts
move_piece_counting(s, from, to) ==
    [s EXCEPT !.consecutive_non_pawn_or_capture = @ + 1]

\* Board::move_piece
move_piece(s, from, to) ==
    IF ~is_valid(from) \/ ~is_valid(to) THEN s
    ELSE
    LET direction_y == IF s.player_turn = White THEN -1 ELSE 1
        piece_type_from == get_piece_type(s.board, from)
        en_passant == is_latest_move_en_passant(s, from, to)
        row_index == to.row - direction_y
    IN IF en_passant /\ ~is_valid(Coords(row_index, to.col))
       THEN Panic([s EXCEPT !.consecutive_non_pawn_or_capture = NextCounter(s, from, to)])
       ELSE
       LET b1 == IF en_passant THEN set(s.board, Coords(row_index, to.col), None)
                 ELSE s.board
           s1 == [s EXCEPT !.board = b1]
           castling == is_latest_move_castling(s1, from, to)
           to_hist_coords == IF castling THEN Coords(to.row, CastleKingCol(from, to))
                             ELSE Coords(to.row, to.col)
           b2 == IF castling THEN CastleGrid(s, b1, from, to)
                 ELSE set(b1, to, get(b1, from))
           b3 == set(b2, from, None)
           position_number == to_hist(from) \o to_hist(to_hist_coords)
       IN [s EXCEPT
             !.consecutive_non_pawn_or_capture = NextCounter(s, from, to),
             !.board = b3,
             !.move_history =
                 IF piece_type_from # NoKind
                 THEN Append(s.move_history, HistRec(piece_type_from, position_number))
                 ELSE s.move_history]

----------------------------------------------------------------------------
(* Check filter *)

\* the king of the side to move of the Board n is not in check
KingSafe(n) == ~is_getting_checked(n.board, n.player_turn, n.move_history)

\* impossible_positions_king_checked: the positions whose move, played on a
\* copy of the board, leaves the king of the color not in check
impossible_positions_king_checked(original_coordinates, positions, b, color, history) ==
    LET Keep(position) ==
            KingSafe(move_piece(BoardNew(b, color, history), original_coordinates, position))
    IN SelectSeq(positions, Keep)

KingLine(color) == IF color = White THEN 7 ELSE 0

\* the squares from column lo to column hi of the king's line are empty
LineEmpty(b, line, lo, hi) == \A j \in lo..hi : get(b, Coords(line, j)) = None

\* the castling candidates of the color, named by the rook's corner: king and
\* rook have not moved, the squares between them are empty, the king is not
\* in check and crosses no protected square
CastlingPositions(color, b, history, is_king_checked, checked_cells) ==
    LET line == KingLine(color)
        big == ~did_piece_already_move(history, Rook, Coords(line, 0))
               /\ get(b, Coords(line, 0)) = Some(Rook, color)
               /\ LineEmpty(b, line, 1, 3)
               /\ Coords(line, 3) \notin checked_cells
               /\ Coords(line, 2) \notin checked_cells
        small == ~did_piece_already_move(history, Rook, Coords(line, 7))
                 /\ get(b, Coords(line, 7)) = Some(Rook, color)
                 /\ LineEmpty(b, line, 5, 6)
                 /\ Coords(line, 5) \notin checked_cells
                 /\ Coords(line, 6) \notin checked_cells
    IN IF ~did_piece_already_move(history, King, Coords(line, 4)) /\ ~is_king_checked
       THEN (IF big THEN <<Coords(line, 0)>> ELSE <<>>)
            \o (IF small THEN <<Coords(line, 7)>> ELSE <<>>)
       ELSE <<>>

\* the adjacent squares of the king that no opposing piece protects
KingFree(c, color, b, checked_cells) ==
    LET Free(position) == position \notin checked_cells IN
    SelectSeq(KingMove(c, color, b, FALSE), Free)

KingPositions(c, color, b, history, is_king_checked, checked_cells) ==
    CastlingPositions(color, b, history, is_king_checked, checked_cells)
    \o KingFree(c, color, b, checked_cells)

\* King::authorized_positions
KingAuthorized(c, color, b, history, is_king_checked) ==
    KingPositions(c, color, b, history, is_king_checked,
                  get_all_protected_cells(b, color, history))

\* Bishop::authorized_positions without the filter on the king's safety
BishopAuthorized_unfiltered(c, color, b, history) == BishopMove(c, color, b, FALSE)

\* Bishop::authorized_positions and Knight::authorized_positions
BishopAuthorized(c, color, b, history) ==
    impossible_positions_king_checked(c, BishopMove(c, color, b, FALSE), b, color, history)

\* Knight::authorized_positions without the filter on the king's safety
KnightAuthorized_unfiltered(c, color, b, history) == KnightMove(c, color, b, FALSE)

KnightAuthorized(c, color, b, history) ==
    impossible_positions_king_checked(c, KnightMove(c, color, b, FALSE), b, color, history)

\* PieceType::authorized_positions
authorized_positions(kind, c, color, b, history, is_king_checked) ==
    IF kind = King THEN KingAuthorized(c, color, b, history, is_king_checked)
    ELSE IF kind = Bishop THEN BishopAuthorized(c, color, b, history)
    ELSE IF kind = Knight THEN KnightAuthorized(c, color, b, history)
    ELSE impossible_positions_king_checked(
             c, piece_move(kind, c, color, b, FALSE, history), b, color, history)

\* Board::get_authorized_positions
get_authorized_positions(s, piece_type, piece_color, piece_position) ==
    IF piece_type # NoKind /\ piece_color # NoColor
    THEN authorized_positions(piece_type, piece_position, piece_color, s.board,
                              s.move_history,
                              is_getting_checked(s.board, s.player_turn, s.move_history))
    ELSE <<>>

----------------------------------------------------------------------------
(* Termination queries *)

\* the squares number_of_authorized_positions visits: i and j run over 0..7
\* exclusive, so row 7 and column 7 are left out
ScannedSquares == {Coords(i, j) : i \in 0..6, j \in 0..6}

RECURSIVE SumLen(_, _)
SumLen(s, cells) ==
    IF cells = {} THEN 0
    ELSE LET c == CHOOSE x \in cells : TRUE IN
         Len(get_authorized_positions(s, get(s.board, c).kind, get(s.board, c).color, c))
         + SumLen(s, cells \ {c})

number_of_authorized_positions(s) ==
    SumLen(s, {c \in ScannedSquares : get(s.board, c).color = s.player_turn})

\* the destination of the last history record
LastTo(s) ==
    LET position == s.move_history[Len(s.move_history)] IN
    Coords(chtoi(position.code[3]), chtoi(position.code[4]))

\* is_latest_move_promotion that knows only the last row of White
is_latest_move_promotion_white(s) ==
    IF s.move_history = <<>> THEN FALSE
    ELSE get(s.board, LastTo(s)).kind = Pawn /\ LastTo(s).row = 0

is_latest_move_promotion(s) ==
    IF s.move_history = <<>> THEN FALSE
    ELSE LET to == LastTo(s)
             piece == get(s.board, to)
             last_row == IF piece.color = White THEN 0 ELSE 7
         IN piece # None /\ to.row = last_row /\ piece.kind = Pawn

\* Board::is_checkmate()
IsCheckmate(s) ==
    IF ~is_getting_checked(s.board, s.player_turn, s.move_history) THEN FALSE
    ELSE number_of_authorized_positions(s) = 0

\* a draw_by_repetition that does not compare the record eight places back
draw_by_repetition_short(s) ==
    LET n == Len(s.move_history)
        last_ten(k) == s.move_history[n - k]
    IN n >= 9
       /\ last_ten(0) = last_ten(4) /\ last_ten(1) = last_ten(5)
       /\ last_ten(2) = last_ten(6) /\ last_ten(3) = last_ten(7)

\* Board::draw_by_repetition(): last_ten[k] is the record k places from the end
draw_by_repetition(s) ==
    LET n == Len(s.move_history)
        last_ten(k) == s.move_history[n - k]
    IN n >= 9
       /\ last_ten(0) = last_ten(4) /\ last_ten(1) = last_ten(5)
       /\ last_ten(4) = last_ten(8)
       /\ last_ten(2) = last_ten(6) /\ last_ten(3) = last_ten(7)

DrawCounter == 50

\* Board::is_draw()
IsDraw(s) ==
    number_of_authorized_positions(s) = 0
    \/ s.consecutive_non_pawn_or_capture = DrawCounter
    \/ draw_by_repetition(s)

----------------------------------------------------------------------------
(* Takeback *)

NoRecord == [some |-> FALSE, kind |-> NoKind, idx |-> 0]

\* Board::history_has on the history h: the last record, the first one
\* excepted (the loop stops before index 0), that moved to (or from) coord;
\* idx is the 0-based index of the record
history_has(h, coord, to) ==
    LET Match(i) == IF to THEN Slice(h[i + 1].code, 2, 4) = to_hist(coord)
                    ELSE Slice(h[i + 1].code, 0, 2) = to_hist(coord)
        found == {i \in 1..(Len(h) - 1) : Match(i)}
    IN IF found = {} THEN NoRecord
       ELSE LET i == CHOOSE k \in found : \A o \in found : o <= k IN
            [some |-> TRUE, kind |-> h[i + 1].kind, idx |-> i]

\* what takeback puts on the square the undone move went to
RestoredPiece(h, from, turn) ==
    LET moved_to == history_has(h, from, TRUE)
        moved_from == history_has(h, from, FALSE)
    IN IF (moved_to.some /\ ~moved_from.some)
          \/ (moved_from.some /\ moved_to.some /\ moved_to.idx > moved_from.idx)
       THEN Some(moved_to.kind, turn)
       ELSE IF get(DefaultGrid, from) # None
            THEN (IF get_piece_color(DefaultGrid, from) = turn /\ ~moved_from.some
                  THEN get(DefaultGrid, from) ELSE None)
            ELSE None

\* a takeback that pops the record but forgets the turn
takeback_keeping_turn(s) ==
    IF s.move_history = <<>> THEN s
    ELSE [s EXCEPT !.move_history = SubSeq(s.move_history, 1, Len(s.move_history) - 1)]

\* a takeback that undoes a castling like any other move: the rook stays
takeback_without_rook(s) ==
    IF s.move_history = <<>> THEN s
    ELSE
    LET n == Len(s.move_history)
        h == SubSeq(s.move_history, 1, n - 1)
        to == from_hist(Slice(s.move_history[n].code, 0, 2))
        from == from_hist(Slice(s.move_history[n].code, 2, 4))
        b2 == IF s.move_history[n].kind = Pawn /\ (from.row = 0 \/ from.row = 7)
              THEN set(s.board, to, Some(Pawn, opposite(s.player_turn)))
              ELSE set(s.board, to, get(s.board, from))
        b3 == set(b2, from, RestoredPiece(h, from, s.player_turn))
    IN switch_player_turn([s EXCEPT !.move_history = h, !.board = b3])

\* a takeback that also takes the undone ply off the 50-move counter
takeback_rolling_back(s) ==
    IF s.move_history = <<>> THEN s
    ELSE switch_player_turn(
             [s EXCEPT !.move_history = SubSeq(s.move_history, 1, Len(s.move_history) - 1),
                       !.consecutive_non_pawn_or_capture = IF @ > 0 THEN @ - 1 ELSE 0])

\* Board::takeback; `to` is the origin of the undone move and `from` its
\* destination, as in the source
takeback(s) ==
    IF s.move_history = <<>> THEN s
    ELSE
    LET n == Len(s.move_history)
        piece_type == s.move_history[n].kind
        prev_move == s.move_history[n].code
        h == SubSeq(s.move_history, 1, n - 1)
        to == from_hist(Slice(prev_move, 0, 2))
        from == from_hist(Slice(prev_move, 2, 4))
        turn == s.player_turn
        castling == piece_type = King /\ Abs(from.col - to.col) > 1
        right_rook == Coords(from.row, from.col - 1)
        left_rook == Coords(from.row, from.col + 1)
        home == IF turn = Black THEN 7 ELSE 0
        right == is_valid(right_rook) /\ get(s.board, right_rook).kind = Rook
        en_passant == ~castling /\ piece_type = Pawn
                      /\ to.row # from.row /\ to.col # from.col
        passant == IF en_passant /\ h # <<>> /\ h[Len(h)].kind = Pawn
                   THEN LET passant_from == from_hist(Slice(h[Len(h)].code, 0, 2))
                            passant_to == from_hist(Slice(h[Len(h)].code, 2, 4))
                        IN IF Abs(passant_to.row - passant_from.row) > 1
                              /\ Abs(from.row - passant_to.row) = 1
                           THEN <<passant_to>> ELSE <<>>
                   ELSE <<>>
        b1 == IF castling
              THEN (IF right
                    THEN set(set(s.board, right_rook, None),
                             Coords(home, 7), Some(Rook, opposite(turn)))
                    ELSE set(set(s.board, left_rook, None),
                             Coords(home, 0), Some(Rook, opposite(turn))))
              ELSE IF passant # <<>> THEN set(s.board, passant[1], Some(Pawn, turn))
              ELSE s.board
        b2 == IF piece_type = Pawn /\ (from.row = 0 \/ from.row = 7)
              THEN set(b1, to, Some(Pawn, opposite(turn)))
              ELSE set(b1, to, get(b1, from))
        b3 == set(b2, from, RestoredPiece(h, from, turn))
    IN IF castling /\ ((~is_valid(right_rook)) \/ (~right /\ ~is_valid(left_rook)))
       THEN Panic([s EXCEPT !.move_history = h])
       ELSE switch_player_turn([s EXCEPT !.move_history = h, !.board = b3])

unselect_cell(s) ==
    IF is_cell_selected(s)
    THEN [s EXCEPT !.selected_coordinates = CoordsDefault,
                   !.selected_piece_cursor = 0,
                   !.cursor_coordinates = s.old_cursor_position]
    ELSE s

----------------------------------------------------------------------------
(* Cursor and selection *)

\* Vec::sort of a destination list, by the derived order of Coords
RECURSIVE Insert(_, _)
Insert(c, sorted) ==
    IF sorted = <<>> THEN <<c>>
    ELSE IF CoordsLess(Head(sorted), c) THEN <<Head(sorted)>> \o Insert(c, Tail(sorted))
    ELSE <<c>> \o sorted

RECURSIVE Sort(_)
Sort(positions) ==
    IF positions = <<>> THEN <<>> ELSE Insert(Head(positions), Sort(Tail(positions)))

\* the % of Rust on i8: the remainder has the sign of the dividend
Rem(a, n) == IF a >= 0 THEN a % n ELSE 0 - ((0 - a) % n)

\* an index that is not brought back to the end of the list below 0
NextCursorIndex_unwrapped(cursor, first_time_moving, direction, len) ==
    IF cursor = 0 /\ first_time_moving THEN 0
    ELSE Rem(cursor + direction, len)

\* the index move_selected_piece_cursor moves to in a list of len destinations
NextCursorIndex(cursor, first_time_moving, direction, len) ==
    IF cursor = 0 /\ first_time_moving THEN 0
    ELSE IF Rem(cursor + direction, len) = -1 THEN len - 1
    ELSE Rem(cursor + direction, len)

\* the cursor placed on the destination of index `cursor` of the sorted list
PlaceCursor(s, cursor, sorted) ==
    [s EXCEPT !.selected_piece_cursor = cursor,
              !.cursor_coordinates =
                  IF cursor + 1 \in 1..Len(sorted) THEN sorted[cursor + 1]
                  ELSE s.cursor_coordinates]

\* move_selected_piece_cursor on the destinations of the selected piece
MoveCursorIn(s, first_time_moving, direction, positions) ==
    IF positions # <<>>
    THEN PlaceCursor(s, NextCursorIndex(s.selected_piece_cursor, first_time_moving,
                                        direction, Len(positions)),
                     Sort(positions))
    ELSE [s EXCEPT !.cursor_coordinates = CoordsDefault]

move_selected_piece_cursor(s, first_time_moving, direction) ==
    MoveCursorIn(s, first_time_moving, direction,
                 get_authorized_positions(
                     s, get_piece_type(s.board, s.selected_coordinates),
                     get_piece_color(s.board, s.selected_coordinates),
                     s.selected_coordinates))

Frozen(s) == s.is_checkmate \/ s.is_draw

\* a cursor_up that does not test the checkmate and draw flags
cursor_up_unguarded(s) ==
    IF s.is_promotion THEN s
    ELSE IF is_cell_selected(s) THEN move_selected_piece_cursor(s, FALSE, -1)
    ELSE IF s.cursor_coordinates.row > 0
    THEN [s EXCEPT !.cursor_coordinates.row = @ - 1]
    ELSE s

cursor_up(s) ==
    IF ~s.is_checkmate /\ ~s.is_draw /\ ~s.is_promotion
    THEN (IF is_cell_selected(s) THEN move_selected_piece_cursor(s, FALSE, -1)
          ELSE IF s.cursor_coordinates.row > 0
          THEN [s EXCEPT !.cursor_coordinates.row = @ - 1]
          ELSE s)
    ELSE s

cursor_down(s) ==
    IF ~s.is_checkmate /\ ~s.is_draw /\ ~s.is_promotion
    THEN (IF is_cell_selected(s) THEN move_selected_piece_cursor(s, FALSE, 1)
          ELSE IF s.cursor_coordinates.row < 7
          THEN [s EXCEPT !.cursor_coordinates.row = @ + 1]
          ELSE s)
    ELSE s

cursor_left(s) ==
    IF s.is_promotion
    THEN [s EXCEPT !.promotion_cursor = IF @ > 0 THEN @ - 1 ELSE 3]
    ELSE IF ~s.is_checkmate /\ ~s.is_draw
    THEN (IF is_cell_selected(s) THEN move_selected_piece_cursor(s, FALSE, -1)
          ELSE IF s.cursor_coordinates.col > 0
          THEN [s EXCEPT !.cursor_coordinates.col = @ - 1]
          ELSE s)
    ELSE s

\* a cursor_right that does not wrap the promotion cursor around
cursor_right_unwrapped(s) ==
    IF s.is_promotion
    THEN [s EXCEPT !.promotion_cursor = @ + 1]
    ELSE IF ~s.is_checkmate /\ ~s.is_draw
    THEN (IF is_cell_selected(s) THEN move_selected_piece_cursor(s, FALSE, 1)
          ELSE IF s.cursor_coordinates.col < 7
          THEN [s EXCEPT !.cursor_coordinates.col = @ + 1]
          ELSE s)
    ELSE s

cursor_right(s) ==
    IF s.is_promotion
    THEN [s EXCEPT !.promotion_cursor = (@ + 1) % 4]
    ELSE IF ~s.is_checkmate /\ ~s.is_draw
    THEN (IF is_cell_selected(s) THEN move_selected_piece_cursor(s, FALSE, 1)
          ELSE IF s.cursor_coordinates.col < 7
          THEN [s EXCEPT !.cursor_coordinates.col = @ + 1]
          ELSE s)
    ELSE s

\* the kinds the promotion popup offers, by promotion_cursor
PromotionKinds == <<Queen, Rook, Bishop, Knight>>

promote_piece(s) ==
    IF s.move_history # <<>> /\ s.promotion_cursor \notin 0..3 THEN Panic(s)
    ELSE
    LET b == IF s.move_history # <<>> /\ get_piece_color(s.board, LastTo(s)) # NoColor
             THEN set(s.board, LastTo(s),
                      Some(PromotionKinds[s.promotion_cursor + 1],
                           get_piece_color(s.board, LastTo(s))))
             ELSE s.board
    IN [s EXCEPT !.board = b, !.is_promotion = FALSE, !.promotion_cursor = 0]

----------------------------------------------------------------------------
(* The engine *)

Letters == <<"a", "b", "c", "d", "e", "f", "g", "h">>
col_to_letter(col) == Letters[col + 1]
letter_to_col(ch) == CHOOSE c \in 0..7 : Letters[c + 1] = ch

\* a move in the notation of the engine: file and rank of the origin, then of
\* the destination; rank 8 is row 0
Notation(from, to) ==
    <<col_to_letter(from.col)>> \o itoa(8 - from.row)
    \o <<col_to_letter(to.col)>> \o itoa(8 - to.row)

\* convert_notation_into_position: the move code "from_y from_x to_y to_x"
convert_notation_into_position(notation) ==
    itoa(Abs(chtoi(notation[2]) - 8)) \o itoa(letter_to_col(notation[1]))
    \o itoa(Abs(chtoi(notation[4]) - 8)) \o itoa(letter_to_col(notation[3]))

\* Board::bot_move with the engine's answer `movement`
bot_move(s, movement) ==
    LET converted_move == convert_notation_into_position(movement)
        from == Coords(chtoi(converted_move[1]), chtoi(converted_move[2]))
        to == Coords(chtoi(converted_move[3]), chtoi(converted_move[4]))
    IN move_piece(s, from, to)

\* The answers the engine can give for the position of s: a move of the side
\* to move that the rules allow; a castling move is reported as the king's
\* move to its landing square
EngineTo(s, from, to) ==
    IF get(s.board, from).kind = King /\ Abs(from.col - to.col) > 1
    THEN Coords(to.row, CastleKingCol(from, to))
    ELSE to

bestmove(s) ==
    UNION {{Notation(from, EngineTo(s, from, to)) :
               to \in Range(get_authorized_positions(
                                s, get(s.board, from).kind, s.player_turn, from))} :
              from \in {c \in Squares : get(s.board, c).color = s.player_turn}}

----------------------------------------------------------------------------
(* FEN *)

\* n.to_string() of an integer
RECURSIVE to_string(_)
to_string(n) ==
    IF n < 0 THEN <<"-">> \o to_string(0 - n)
    ELSE IF n < 10 THEN <<DigitChars[n + 1]>>
    ELSE to_string(n \div 10) \o <<DigitChars[(n % 10) + 1]>>

\* PieceType::piece_to_fen_enum: the FEN letter of a cell, upper case for
\* White and lower case for Black, the empty string for an empty cell
piece_to_fen_enum(kind, color) ==
    CASE kind = NoKind -> <<>>
      [] kind = King -> IF color = White THEN <<"K">> ELSE <<"k">>
      [] kind = Queen -> IF color = White THEN <<"Q">> ELSE <<"q">>
      [] kind = Rook -> IF color = White THEN <<"R">> ELSE <<"r">>
      [] kind = Bishop -> IF color = White THEN <<"B">> ELSE <<"b">>
      [] kind = Knight -> IF color = White THEN <<"N">> ELSE <<"n">>
      [] kind = Pawn -> IF color = White THEN <<"P">> ELSE <<"p">>

\* the body of the loop of fen_position for one cell: an empty cell
\* increments the digit that ends the text or starts a new run with '1'
FenCell(result, letter) ==
    IF letter # <<>> THEN result \o letter
    ELSE IF result # <<>> /\ (\E d \in 0..9 : DigitChars[d + 1] = result[Len(result)])
         THEN LET d == chtoi(result[Len(result)]) + 1
              IN SubSeq(result, 1, Len(result) - 1)
                 \o <<IF d < 10 THEN DigitChars[d + 1] ELSE "\\0">>
         ELSE result \o <<"1">>

\* the inner loop of fen_position on row i from column j on; `result` is the
\* text of the row so far (the text before it ends with '/', or is empty,
\* so no digit of an earlier row is ever incremented)
RECURSIVE FenCells(_, _, _, _)
FenCells(b, i, j, result) ==
    IF j = 8 THEN result
    ELSE FenCells(b, i, j + 1,
                  FenCell(result,
                          piece_to_fen_enum(get_piece_type(b, Coords(i, j)),
                                            get_piece_color(b, Coords(i, j)))))

\* the outer loop of fen_position from row i on: every row ends with '/'
RECURSIVE FenRows(_, _)
FenRows(b, i) ==
    IF i = 8 THEN <<>> ELSE FenCells(b, i, 0, <<>>) \o <<"/">> \o FenRows(b, i + 1)

\* Board::did_pawn_move_two_cells
did_pawn_move_two_cells(s) ==
    /\ s.move_history # <<>>
    /\ LET last == s.move_history[Len(s.move_history)]
       IN /\ last.kind = Pawn
          /\ Abs(chtoi(last.code[3]) - chtoi(last.code[1])) = 2

\* the castling part of fen_position: the availabilities of Black only
FenCastles(s) ==
    IF /\ ~did_piece_already_move(s.move_history, King, Coords(0, 4))
       /\ ~is_getting_checked(s.board, Black, s.move_history)
    THEN (IF ~did_piece_already_move(s.move_history, Rook, Coords(0, 7))
          THEN <<" ", "k">> ELSE <<>>)
         \o (IF ~did_piece_already_move(s.move_history, Rook, Coords(0, 0))
             THEN <<"q">> ELSE <<>>)
    ELSE <<" ", "-">>

\* the en passant part of fen_position
FenEnPassant(s) ==
    IF did_pawn_move_two_cells(s)
    THEN LET latest_move_string == s.move_history[Len(s.move_history)].code
             from_y == chtoi(latest_move_string[1]) - 1
             from_x == chtoi(latest_move_string[2])
         IN <<" ">> \o <<col_to_letter(from_x)>> \o to_string(8 - from_y)
    ELSE <<" ", "-">>

\* Board::fen_position: the text as a sequence of characters
fen_position(s) ==
    LET placement == FenRows(s.board, 0)
    IN SubSeq(placement, 1, Len(placement) - 1)
       \o <<" ", "b">>
       \o FenCastles(s)
       \o FenEnPassant(s)
       \o <<" ">> \o to_string(s.consecutive_non_pawn_or_capture)
       \o <<" ">> \o to_string(Len(s.move_history) \div 2)

\* str::split: the pieces of a text between the occurrences of a separator
Split(text, sep) ==
    LET at == {i \in 1..Len(text) : text[i] = sep}
        Start(k) == CHOOSE a \in at \cup {0} :
                        Cardinality({i \in at : i <= a}) = k - 1
        End(k) == CHOOSE e \in at \cup {Len(text) + 1} :
                        Cardinality({i \in at : i < e}) = k - 1
    IN [k \in 1..(Cardinality(at) + 1) |-> SubSeq(text, Start(k) + 1, End(k) - 1)]

\* PieceType::from_char: the piece a FEN letter stands for, None for any
\* other character
from_char(ch) ==
    CASE ch = "K" -> Some(King, White)     [] ch = "k" -> Some(King, Black)
      [] ch = "Q" -> Some(Queen, White)    [] ch = "q" -> Some(Queen, Black)
      [] ch = "R" -> Some(Rook, White)     [] ch = "r" -> Some(Rook, Black)
      [] ch = "B" -> Some(Bishop, White)   [] ch = "b" -> Some(Bishop, Black)
      [] ch = "N" -> Some(Knight, White)   [] ch = "n" -> Some(Knight, Black)
      [] ch = "P" -> Some(Pawn, White)     [] ch = "p" -> Some(Pawn, Black)
      [] OTHER -> None

\* the loop of from_fen over the characters of row i, from column j on: a
\* letter fills one cell, a digit skips cells; a character that is neither
\* and a cell outside the 8 x 8 array end in a panic
RECURSIVE FromFenRow(_, _, _, _)
FromFenRow(b, i, j, chars) ==
    IF chars = <<>> THEN [panicked |-> FALSE, board |-> b]
    ELSE IF from_char(Head(chars)) # None
    THEN (IF i > 7 \/ j > 7 THEN [panicked |-> TRUE, board |-> b]
          ELSE FromFenRow(set(b, Coords(i, j), from_char(Head(chars))), i, j + 1,
                          Tail(chars)))
    ELSE IF ~(\E d \in 0..9 : DigitChars[d + 1] = Head(chars))
    THEN [panicked |-> TRUE, board |-> b]
    ELSE IF chtoi(Head(chars)) > 0 /\ (i > 7 \/ j + chtoi(Head(chars)) > 8)
    THEN [panicked |-> TRUE, board |-> b]
    ELSE FromFenRow(b, i, j + chtoi(Head(chars)), Tail(chars))

\* the loop of from_fen over the rows of the placement, from row i on
RECURSIVE FromFenRows(_, _, _)
FromFenRows(b, i, rows) ==
    IF i >= Len(rows) THEN [panicked |-> FALSE, board |-> b]
    ELSE LET row == FromFenRow(b, i, 0, rows[i + 1])
         IN IF row.panicked THEN row ELSE FromFenRows(row.board, i + 1, rows)

\* Board::from_fen: Ok with a Board, Err, or a panic
FromFenOf(fields, placement) ==
    IF placement.panicked \/ fields[2] = <<>>
    THEN [result |-> "Panic", board |-> Panic(BoardNew(placement.board, White, <<>>))]
    ELSE IF fields[2][1] = "w"
    THEN [result |-> "Ok", board |-> BoardNew(placement.board, White, <<>>)]
    ELSE IF fields[2][1] = "b"
    THEN [result |-> "Ok", board |-> BoardNew(placement.board, Black, <<>>)]
    ELSE [result |-> "Err", board |-> BoardNew(placement.board, White, <<>>)]

from_fen(fen) ==
    IF Len(Split(fen, " ")) # 6
    THEN [result |-> "Err", board |-> BoardNew(Grid([i \in 1..8 |-> EmptyRow]), White, <<>>)]
    ELSE FromFenOf(Split(fen, " "),
                   FromFenRows(Grid([i \in 1..8 |-> EmptyRow]), 0,
                               Split(Split(fen, " ")[1], "/")))

----------------------------------------------------------------------------
(* select_cell *)

\* the ply of select_cell: the selected piece is moved to the cursor, the
\* cell is unselected and the turn passes
PlyOf(s) ==
    switch_player_turn(
        unselect_cell(move_piece(s, s.selected_coordinates, s.cursor_coordinates)))

\* select_cell reaches move_piece
AppliesPly(s) ==
    ~s.is_promotion /\ ~s.is_checkmate /\ ~s.is_draw
    /\ is_cell_selected(s) /\ is_valid(s.cursor_coordinates)

\* select_cell, a ply s1 applied, reaches bot_move
BotAsked(s1) ==
    s1.is_game_against_bot /\ ~is_latest_move_promotion(s1) /\ ~IsCheckmate(s1)

\* select_cell reaches bot_move: the engine is asked for the position of PlyOf(s)
asks_engine(s) == AppliesPly(s) /\ BotAsked(PlyOf(s))

\* a select_cell that also evaluates is_draw() among the flags it sets last
UpdateFlags_with_draw(s) ==
    [s EXCEPT !.is_checkmate = IsCheckmate(s),
              !.is_promotion = is_latest_move_promotion(s),
              !.is_draw = IsDraw(s)]

\* the flags select_cell sets last
UpdateFlags(s) ==
    [s EXCEPT !.is_checkmate = IsCheckmate(s),
              !.is_promotion = is_latest_move_promotion(s)]

\* the part of select_cell that follows the ply s1 in a game against the
\* engine: the promotion and checkmate flags, then the engine's move
BotTurn(s1, promotion, checkmate, movement) ==
    IF promotion THEN [s1 EXCEPT !.is_promotion = TRUE]
    ELSE IF checkmate THEN [s1 EXCEPT !.is_promotion = FALSE, !.is_checkmate = TRUE]
    ELSE switch_player_turn(
             bot_move([s1 EXCEPT !.is_promotion = FALSE, !.is_checkmate = FALSE],
                      movement))

SetDraw(s2) == [s2 EXCEPT !.is_draw = IsDraw(s2)]

\* select_cell with a cell selected and a valid cursor, s1 the Board after the ply
AfterPly(s1, movement) ==
    SetDraw(IF s1.is_game_against_bot
            THEN BotTurn(s1, is_latest_move_promotion(s1), IsCheckmate(s1), movement)
            ELSE s1)

\* select_cell with no cell selected, `positions` the authorized positions of
\* the piece under the cursor; the flags are not updated when it has none
SelectAt(s, positions) ==
    IF positions = <<>> THEN s
    ELSE IF get_piece_color(s.board, s.cursor_coordinates) = s.player_turn
    THEN UpdateFlags(move_selected_piece_cursor(
             [s EXCEPT !.selected_coordinates = s.cursor_coordinates,
                       !.old_cursor_position = s.cursor_coordinates],
             TRUE, 1))
    ELSE UpdateFlags(s)

\* Board::select_cell; `movement` is the answer of the engine, read only when
\* the engine is asked
select_cell(s, movement) ==
    IF ~s.is_promotion /\ ~s.is_checkmate /\ ~s.is_draw /\ ~is_cell_selected(s)
    THEN SelectAt(s, get_authorized_positions(
                         s, get_piece_type(s.board, s.cursor_coordinates),
                         get_piece_color(s.board, s.cursor_coordinates),
                         s.cursor_coordinates))
    ELSE UpdateFlags(
             IF s.is_promotion THEN promote_piece(s)
             ELSE IF AppliesPly(s) THEN AfterPly(PlyOf(s), movement)
             ELSE s)

----------------------------------------------------------------------------
(* The state machine *)

\* the Board held by the state variables
Self ==
    [board |-> board,
     cursor_coordinates |-> cursor_coordinates,
     selected_coordinates |-> selected_coordinates,
     selected_piece_cursor |-> selected_piece_cursor,
     old_cursor_position |-> old_cursor_position,
     player_turn |-> player_turn,
     move_history |-> move_history,
     is_draw |-> is_draw,
     is_checkmate |-> is_checkmate,
     is_promotion |-> is_promotion,
     promotion_cursor |-> promotion_cursor,
     consecutive_non_pawn_or_capture |-> consecutive_non_pawn_or_capture,
     is_game_against_bot |-> is_game_against_bot,
     panicked |-> panicked]

\* the state variables hold the Board n
Holds(n) ==
    /\ board = n.board
    /\ cursor_coordinates = n.cursor_coordinates
    /\ selected_coordinates = n.selected_coordinates
    /\ selected_piece_cursor = n.selected_piece_cursor
    /\ old_cursor_position = n.old_cursor_position
    /\ player_turn = n.player_turn
    /\ move_history = n.move_history
    /\ is_draw = n.is_draw
    /\ is_checkmate = n.is_checkmate
    /\ is_promotion = n.is_promotion
    /\ promotion_cursor = n.promotion_cursor
    /\ consecutive_non_pawn_or_capture = n.consecutive_non_pawn_or_capture
    /\ is_game_against_bot = n.is_game_against_bot
    /\ panicked = n.panicked

\* The operation `name` took the Board to n.  A panic ends the process: the
\* Board is left as it was and only the panic is recorded.
Becomes(n, name, from, to) ==
    LET r == IF n.panicked THEN Panic(Self) ELSE n IN
    /\ board' = r.board
    /\ cursor_coordinates' = r.cursor_coordinates
    /\ selected_coordinates' = r.selected_coordinates
    /\ selected_piece_cursor' = r.selected_piece_cursor
    /\ old_cursor_position' = r.old_cursor_position
    /\ player_turn' = r.player_turn
    /\ move_history' = r.move_history
    /\ is_draw' = r.is_draw
    /\ is_checkmate' = r.is_checkmate
    /\ is_promotion' = r.is_promotion
    /\ promotion_cursor' = r.promotion_cursor
    /\ consecutive_non_pawn_or_capture' = r.consecutive_non_pawn_or_capture
    /\ is_game_against_bot' = r.is_game_against_bot
    /\ panicked' = r.panicked
    /\ call' = [name |-> name, from |-> from, to |-> to]

NoCall == [name |-> "new", from |-> CoordsDefault, to |-> CoordsDefault]

----------------------------------------------------------------------------
(* Starting positions *)

EmptyGrid == Grid([i \in 1..8 |-> EmptyRow])
Put(b, row, col, kind, color) == set(b, Coords(row, col), Some(kind, color))

\* tests::consecutive_position_draw
RepetitionGrid == Put(Put(EmptyGrid, 0, 2, King, White), 0, 6, King, Black)
RepetitionHistory ==
    <<HistRec(King, <<"0", "2", "0", "1">>), HistRec(King, <<"0", "6", "0", "5">>),
      HistRec(King, <<"0", "1", "0", "2">>), HistRec(King, <<"0", "5", "0", "6">>),
      HistRec(King, <<"0", "2", "0", "1">>), HistRec(King, <<"0", "6", "0", "5">>),
      HistRec(King, <<"0", "1", "0", "2">>), HistRec(King, <<"0", "5", "0", "6">>)>>

\* a white pawn one step from promotion, the black king away from it
PawnEndGrid ==
    Put(Put(Put(EmptyGrid, 2, 0, King, Black), 1, 4, Pawn, White), 7, 1, King, White)
\* White mates with the rook on (0,6) and stalemates with it on (1,1)
RookEndGrid ==
    Put(Put(Put(EmptyGrid, 0, 0, King, Black), 2, 0, King, White), 1, 6, Rook, White)
\* the white king on its home row, Black to move with king and rook
BackRankGrid ==
    Put(Put(Put(EmptyGrid, 0, 0, King, Black), 4, 3, Rook, Black), 7, 4, King, White)

\* a Board as the tests build it: Board::new, then the public fields
\* consecutive_non_pawn_or_capture and is_game_against_bot assigned
Position(grid, turn, history, counter, bot) ==
    [BoardNew(grid, turn, history) EXCEPT
        !.consecutive_non_pawn_or_capture = counter,
        !.is_game_against_bot = bot]

\* the boards the user interface is started on
PlayPositions ==
    {Position(PawnEndGrid, White, <<>>, 0, TRUE),
     Position(BackRankGrid, Black, <<>>, 48, FALSE)}

\* a ply of the user: the piece of `from` selected, the cursor brought to the
\* destination `to`, and the ply select_cell then applies
UserPly(s, from, to) ==
    PlyOf([s EXCEPT !.selected_coordinates = from, !.old_cursor_position = from,
                    !.cursor_coordinates = to])

\* Board::default() after the plies e2-e4, d7-d5
OpeningGame ==
    UserPly(UserPly(BoardDefault, Coords(6, 4), Coords(4, 4)), Coords(1, 3), Coords(3, 3))

\* Board::default() after the plies e2-e4, d7-d5, a2-a3
OpeningBoard ==
    UserPly(UserPly(UserPly(BoardDefault, Coords(6, 4), Coords(4, 4)),
                    Coords(1, 3), Coords(3, 3)),
            Coords(6, 0), Coords(5, 0))

\* the boards of tests::fen_converter_1 and tests::fen_converter_en_passant
FenTestGrid ==
    Put(Put(Put(EmptyGrid, 0, 2, King, Black), 0, 7, Rook, White), 2, 4, King, White)
FenTestHistory == <<HistRec(Pawn, <<"6", "2", "4", "2">>)>>

\* Board::default() after e2-e4, Ng8-f6, a2-a3, Rh8-g8 and then after
\* Nb8-a6, Ra8-b8 as well: first one, then both rooks of Black have moved
KingsideRookMoved ==
    move_piece(move_piece(move_piece(move_piece(BoardDefault,
        Coords(6, 4), Coords(4, 4)), Coords(0, 6), Coords(2, 5)),
        Coords(6, 0), Coords(5, 0)), Coords(0, 7), Coords(0, 6))
BothRooksMoved ==
    move_piece(move_piece(KingsideRookMoved,
        Coords(0, 1), Coords(2, 0)), Coords(0, 0), Coords(0, 1))

FenPositions ==
    {BoardDefault, KingsideRookMoved, BothRooksMoved,
     Position(FenTestGrid, White, <<>>, 0, FALSE),
     Position(Put(FenTestGrid, 4, 2, Pawn, White), Black, FenTestHistory, 0, FALSE),
     Position(BackRankGrid, Black, <<>>, 48, FALSE)}

\* Boards for the move generators.  A lone bishop or knight on every square
\* (tests::piece_move_no_enemies, tests::no_enemies), and boards with the
\* white king on (7,4), the black king on (2,2), a white bishop or knight,
\* a black piece and possibly a white pawn, as in the tests king_checked_*
\* and nailing of bishop.rs and knight.rs
MoverSquares ==
    {Coords(6, 3), Coords(5, 2), Coords(6, 5), Coords(5, 4), Coords(6, 4),
     Coords(4, 4), Coords(5, 5), Coords(7, 3), Coords(3, 3), Coords(5, 6),
     Coords(7, 7), Coords(0, 7), Coords(4, 0)}
EnemySquares ==
    {Coords(4, 1), Coords(3, 0), Coords(3, 4), Coords(4, 7), Coords(7, 0),
     Coords(2, 4), Coords(5, 3), Coords(1, 7), Coords(6, 6), Coords(1, 1)}
AllySquares == {CoordsDefault, Coords(5, 3), Coords(6, 4)}

LonePieceGrids ==
    {set(EmptyGrid, c, Some(kind, White)) : c \in Squares, kind \in {Bishop, Knight}}

PieceGrid(kind, p, enemy, q, ally) ==
    LET kings == Put(Put(EmptyGrid, 7, 4, King, White), 2, 2, King, Black)
        pawn == IF is_valid(ally) THEN set(kings, ally, Some(Pawn, White)) ELSE kings
    IN set(set(pawn, p, Some(kind, White)), q, Some(enemy, Black))

PieceGrids ==
    {PieceGrid(kind, p, enemy, q, ally) :
        kind \in {Bishop, Knight}, p \in MoverSquares,
        enemy \in {Queen, Rook, Bishop, Knight},
        q \in EnemySquares, ally \in AllySquares}

\* a white rook on the file of the black king with at most one pawn or
\* knight of either color between them (tests::is_getting_checked_*)
RookFileGrids ==
    {Put(Put(EmptyGrid, 0, 4, King, Black), r, 4, Rook, White) : r \in 1..4}
    \cup {Put(Put(Put(EmptyGrid, 0, 4, King, Black), r, 4, Rook, White), k, 4, kind, color) :
             r \in 3..5, k \in 1..2, kind \in {Pawn, Knight}, color \in PieceColor}

PiecePositions ==
    {BoardNew(g, White, <<>>) : g \in LonePieceGrids \cup PieceGrids \cup RookFileGrids}

\* a white pawn one step from row 0 and a black pawn one step from row 7
\* (tests::is_promote_true, tests::is_promote_true_black)
PromotionGrid(col) == Put(Put(PawnEndGrid, 1, col, Pawn, White), 6, 6, Pawn, Black)

\* Board::default() with the squares between the kings and the rooks empty
CastleReadyGrid ==
    [r \in 0..7 |-> [c \in 0..7 |->
        IF r \in {0, 7} /\ c \in {1, 2, 3, 5, 6} THEN None ELSE DefaultGrid[r][c]]]

\* Board::default() after e2-e4, a7-a6, e4-e5, d7-d5: White can take en passant
EnPassantBoard ==
    UserPly(UserPly(UserPly(UserPly(BoardDefault,
        Coords(6, 4), Coords(4, 4)), Coords(1, 0), Coords(2, 0)),
        Coords(4, 4), Coords(3, 4)), Coords(1, 3), Coords(3, 3))

\* Board::default() after a2-a3, e7-e5, a3-a4, e5-e4, d2-d4: Black can take
\* en passant
EnPassantBlackBoard ==
    UserPly(UserPly(UserPly(UserPly(UserPly(BoardDefault,
        Coords(6, 0), Coords(5, 0)), Coords(1, 4), Coords(3, 4)),
        Coords(5, 0), Coords(4, 0)), Coords(3, 4), Coords(4, 4)),
        Coords(6, 3), Coords(4, 3))

\* Board::default() after e2-e4, d7-d5, a2-a3, d5xe4, d2-d4: Black, who has
\* captured, can take en passant
CaptureEnPassantBoard ==
    UserPly(UserPly(OpeningBoard, Coords(3, 3), Coords(4, 4)), Coords(6, 3), Coords(4, 3))

\* the games from Board::default() among the boards below
GamePositions ==
    {OpeningBoard, EnPassantBoard, EnPassantBlackBoard, CaptureEnPassantBoard}

\* tests::promote_and_checkmate and tests::promote_and_draw mirrored, the
\* kings off the last row and column: White's pawn on (1,3) mates when it
\* becomes a queen or a rook on (0,3), Black's pawn on (6,2) stalemates when
\* it becomes a queen on (7,2); the first
\* board with the record of Black's last ply, the king's step to (0,0)
PromoteMateGrid ==
    Put(Put(Put(Put(EmptyGrid, 0, 0, King, Black), 1, 4, Rook, White),
            1, 3, Pawn, White), 7, 6, King, White)
PromoteDrawGrid ==
    Put(Put(Put(Put(EmptyGrid, 1, 1, Rook, Black), 5, 6, King, Black),
            6, 2, Pawn, Black), 6, 0, King, White)

\* the boards promotions are played on through the user interface
CrownPositions ==
    {Position(PromoteMateGrid, White, <<HistRec(King, <<"1", "0", "0", "0">>)>>, 0, FALSE),
     Position(PromoteDrawGrid, Black, <<>>, 0, FALSE)}

\* the boards pieces are selected on: an ending, the kings ready to castle,
\* the opening position, and the grid of EnPassantBoard with the record of
\* Black's two-square advance, on which White can take en passant
SelectPositions ==
    {Position(RookEndGrid, White, <<>>, 0, FALSE),
     Position(CastleReadyGrid, White, <<>>, 3, FALSE),
     BoardDefault,
     Position(EnPassantBoard.board, White,
              <<HistRec(Pawn, <<"1", "3", "3", "3">>)>>, 0, FALSE)}

\* the board of tests::promote_and_draw without the rook: Black's pawn on
\* (6,5) is one step from promotion, the white king stands on column 7
PromoteDrawTestGrid ==
    Put(Put(Put(EmptyGrid, 5, 1, King, Black), 6, 5, Pawn, Black), 6, 7, King, White)

\* two-player boards one ply away from a draw: the kings of
\* tests::consecutive_position_draw with the counter at 49, and the promotion
\* board, on which is_draw() holds for White whatever Black plays
DrawnPositions ==
    {Position(RepetitionGrid, White, <<>>, 49, FALSE),
     Position(PromoteDrawTestGrid, Black, <<>>, 0, FALSE)}

\* the boards the special moves are played on
MovesPositions ==
    {Position(CastleReadyGrid, turn, <<>>, 3, FALSE) : turn \in PieceColor}
    \cup {Position(CastleReadyGrid, White, <<>>, 3, TRUE),
          BoardDefault, Position(PromotionGrid(4), White, <<>>, 5, FALSE)}
    \cup GamePositions

\* FEN texts: the placement of a board as fen_position writes it or a
\* malformed one, a side to move field, and three, four or five more fields
PlacementOf(g) == SubSeq(FenRows(g, 0), 1, Len(FenRows(g, 0)) - 1)

RECURSIVE Join(_)
Join(fields) ==
    IF Len(fields) = 1 THEN fields[1] ELSE fields[1] \o <<" ">> \o Join(Tail(fields))

FenPlacements ==
    {PlacementOf(g) : g \in {DefaultGrid, FenTestGrid, PawnEndGrid, RookEndGrid,
                             BackRankGrid, RepetitionGrid, EmptyGrid}}
    \cup {<<"9">>, <<"x">>, <<"8", "/", "8">>, <<"k", "8">>,
          <<"/", "/", "/", "/", "/", "/", "/", "/", "K">>}
FenSides == {<<"w">>, <<"b">>, <<"x">>, <<"-">>, <<>>, <<"B">>, <<"w", "h", "i", "t", "e">>}
FenTails ==
    {<<<<"-">>, <<"-">>, <<"0">>, <<"0">>>>, <<<<"-">>, <<"-">>, <<"0">>>>,
     <<<<"k", "q">>, <<"-">>, <<"0">>, <<"0">>, <<"0">>>>}

FenTexts ==
    {Join(<<placement, side>> \o tail) :
        placement \in FenPlacements, side \in FenSides, tail \in FenTails}
    \cup {fen_position(s) : s \in {BoardDefault, KingsideRookMoved, BothRooksMoved}}

----------------------------------------------------------------------------
(* Bounds *)

\* plies applied through the user interface on a small position
MaxPlies == 1
\* plies applied through the user interface in the game from Board::default()
GamePlies == 1
\* plies applied through the user interface in the rook ending
EndPlies == 1
\* calls of move_piece in a run of the programming interface
ApiCalls == 1
\* length of the histories a Board is built with
MaxHist == 9

\* the records the built histories are made of
RecordPool ==
    {HistRec(King, <<"0", "1", "0", "2">>), HistRec(Queen, <<"0", "5", "0", "6">>)}

Histories == UNION {[1..n -> RecordPool] : n \in 0..MaxHist}

\* the boards the programming interface is called on: Board::default(), a
\* game in its opening and the board of tests::consecutive_position_draw
ApiPositions ==
    {BoardDefault, OpeningBoard,
     Position(RepetitionGrid, White, RepetitionHistory, 0, FALSE)}

\* the boards Board::new builds with a history
HistPositions ==
    {Position(RepetitionGrid, White, RepetitionHistory, 0, FALSE)}
    \cup {Position(RepetitionGrid, White, h, 0, FALSE) : h \in Histories}

\* coordinates outside the grid that Coords::new accepts
OutsideCoords == {CoordsDefault, Coords(8, 0), Coords(0, 9), Coords(-2, 3)}

\* the squares holding a piece of the side to move
OwnSquares(s) == {c \in Squares : get_piece_color(s.board, c) = s.player_turn}

\* the arguments move_piece is called with: the moves of the pieces of the
\* side to move, a move from a square that may be empty (tests::fifty_moves_draw)
\* and moves with a coordinate outside the grid
MoveArguments(s) ==
    UNION {{<<c, t>> : t \in Range(piece_move(get_piece_type(s.board, c), c,
                                              s.player_turn, s.board, FALSE,
                                              s.move_history))} :
           c \in OwnSquares(s)}
    \cup {<<Coords(0, 6), Coords(0, 5)>>}
    \cup {<<o, Coords(0, 0)>> : o \in OutsideCoords}
    \cup {<<Coords(0, 2), o>> : o \in OutsideCoords}

\* the authorized plies of s that castle, take en passant or capture
SpecialPlies(s) ==
    UNION {{<<c, t>> : t \in {d \in Range(get_authorized_positions(
                                             s, get_piece_type(s.board, c),
                                             s.player_turn, c)) :
                                 \/ get(s.board, c).kind = Pawn /\ d.col # c.col
                                 \/ get(s.board, d) # None}} :
           c \in OwnSquares(s)}

\* the arguments of move_piece in a run of the special moves: the special
\* plies, a king's move to the corners and to the castling squares of its
\* row, moves from an empty square, two pawn moves, a knight's move and a
\* destination outside the grid
MoveAnyArguments(s) ==
    SpecialPlies(s)
    \cup {<<Coords(line, 4), Coords(line, col)>> : line \in {0, 7}, col \in {0, 2, 6, 7}}
    \cup {<<Coords(4, 0), Coords(1, 0)>>, <<Coords(4, 0), Coords(4, 1)>>,
          <<Coords(6, 6), Coords(4, 6)>>, <<Coords(1, 4), Coords(0, 4)>>,
          <<Coords(7, 6), Coords(5, 5)>>, <<Coords(7, 4), Coords(8, 4)>>}

\* s with the piece of m[1] selected and the cursor brought to m[2]
Poised(s, m) ==
    LET cycle == Sort(get_authorized_positions(s, get_piece_type(s.board, m[1]),
                                               s.player_turn, m[1]))
    IN [s EXCEPT !.selected_coordinates = m[1],
                 !.old_cursor_position = m[1],
                 !.cursor_coordinates = m[2],
                 !.selected_piece_cursor =
                     (CHOOSE i \in 1..Len(cycle) : cycle[i] = m[2]) - 1]

----------------------------------------------------------------------------
(* Actions *)

\* the answers select_cell can get from the engine; <<>> when it is not asked
Answers(s) == IF asks_engine(s) THEN bestmove(PlyOf(s)) ELSE {<<>>}

SelectCellWith(answers) ==
    IF answers = {}
    THEN Becomes(Panic(Self), "select_cell", CoordsDefault, CoordsDefault)
    ELSE \E movement \in answers :
            Becomes(select_cell(Self, movement), "select_cell",
                    CoordsDefault, CoordsDefault)

SelectCell(limit) ==
    /\ ~panicked
    /\ AppliesPly(Self) => plies < limit
    /\ plies' = IF AppliesPly(Self) THEN plies + 1 ELSE plies
    /\ SelectCellWith(Answers(Self))

CursorUp ==
    /\ ~panicked
    /\ Becomes(cursor_up(Self), "cursor_up", CoordsDefault, CoordsDefault)
    /\ UNCHANGED plies

CursorDown ==
    /\ ~panicked
    /\ Becomes(cursor_down(Self), "cursor_down", CoordsDefault, CoordsDefault)
    /\ UNCHANGED plies

CursorLeft ==
    /\ ~panicked
    /\ Becomes(cursor_left(Self), "cursor_left", CoordsDefault, CoordsDefault)
    /\ UNCHANGED plies

CursorRight ==
    /\ ~panicked
    /\ Becomes(cursor_right(Self), "cursor_right", CoordsDefault, CoordsDefault)
    /\ UNCHANGED plies

UnselectCell ==
    /\ ~panicked
    /\ Becomes(unselect_cell(Self), "unselect_cell", CoordsDefault, CoordsDefault)
    /\ UNCHANGED plies

Takeback ==
    /\ ~panicked
    /\ Becomes(takeback(Self), "takeback", CoordsDefault, CoordsDefault)
    /\ UNCHANGED plies

\* a direct call of move_piece
MovePiece ==
    /\ ~panicked
    /\ plies < ApiCalls
    /\ \E m \in MoveArguments(Self) :
          Becomes(move_piece(Self, m[1], m[2]), "move_piece", m[1], m[2])
    /\ plies' = plies + 1

\* a call of fen_position, which reads the Board and changes nothing
FenPosition ==
    /\ ~panicked
    /\ Becomes(Self, "fen_position", CoordsDefault, CoordsDefault)
    /\ UNCHANGED plies

\* the squares of the Board that hold a piece
Occupied(s) == {c \in Squares : get(s.board, c) # None}

\* calls of the move generators and of is_getting_checked for the piece on a
\* square of the Board; they read the Board and change nothing
PieceMove ==
    /\ \E c \in Occupied(Self) : Becomes(Self, "piece_move", c, CoordsDefault)
    /\ UNCHANGED plies

AuthorizedPositions ==
    /\ \E c \in Occupied(Self) : Becomes(Self, "authorized_positions", c, CoordsDefault)
    /\ UNCHANGED plies

ProtectedPositions ==
    /\ \E c \in Occupied(Self) : Becomes(Self, "protected_positions", c, CoordsDefault)
    /\ UNCHANGED plies

IsGettingChecked ==
    /\ \E c \in {q \in Occupied(Self) : get(board, q).kind = King} :
          Becomes(Self, "is_getting_checked", c, CoordsDefault)
    /\ UNCHANGED plies

\* a call of promote_piece once a pawn stands on its last row, with the
\* promotion cursor on any of the four kinds
PromotePiece ==
    /\ ~panicked
    /\ is_latest_move_promotion(Self)
    /\ \E k \in 0..3 :
          Becomes(promote_piece([Self EXCEPT !.promotion_cursor = k]),
                  "promote_piece", CoordsDefault, CoordsDefault)
    /\ UNCHANGED plies

\* a call of Board::from_fen, the constructor, before any other call: the
\* Board it returns replaces the default one; an Err leaves it, a panic ends
\* the process; the text is kept as call.to
FromFen ==
    /\ ~panicked
    /\ call = NoCall
    /\ \E fen \in FenTexts :
          Becomes(IF from_fen(fen).result = "Err" THEN Self ELSE from_fen(fen).board,
                  IF from_fen(fen).result = "Err" THEN "from_fen Err" ELSE "from_fen",
                  CoordsDefault, fen)
          /\ plies' = IF from_fen(fen).result = "Err" THEN plies ELSE 0

\* a call of takeback that does not follow another call of takeback
TakebackOnce ==
    /\ call.name # "takeback"
    /\ Takeback

\* a direct call of move_piece, special moves and empty origins included
MoveAnyPiece ==
    /\ ~panicked
    /\ plies < ApiCalls
    /\ \E m \in MoveAnyArguments(Self) :
          Becomes(move_piece(Self, m[1], m[2]), "move_piece", m[1], m[2])
    /\ plies' = plies + 1

\* a call of Coords::new with any two small numbers
CoordInputs == (0 - 4)..11
CoordsNew ==
    /\ ~panicked
    /\ \E row, col \in CoordInputs :
          Becomes(IF Coords_new(row, col).panicked THEN Panic(Self) ELSE Self,
                  "Coords::new", Coords_new(row, col).coords, Coords(row, col))
    /\ UNCHANGED plies

----------------------------------------------------------------------------
(* Specifications *)

\* the user interface on a small position, against a human or the engine
Init ==
    /\ \E s \in PlayPositions : Holds(s)
    /\ call = NoCall
    /\ plies = 0

Next ==
    \/ SelectCell(MaxPlies)
    \/ CursorUp
    \/ CursorDown
    \/ CursorLeft
    \/ CursorRight
    \/ UnselectCell
    \/ Takeback

Spec == Init /\ [][Next]_vars

\* a two-player game from Board::default()
InitGame ==
    /\ Holds(BoardDefault)
    /\ call = NoCall
    /\ plies = 0

NextGame ==
    \/ SelectCell(GamePlies)
    \/ CursorUp
    \/ CursorDown
    \/ CursorLeft
    \/ CursorRight
    \/ UnselectCell
    \/ Takeback

SpecGame == InitGame /\ [][NextGame]_vars

\* a two-player ending that White can win or stalemate in one ply
InitEnd ==
    /\ Holds(Position(RookEndGrid, White, <<>>, 0, FALSE))
    /\ call = NoCall
    /\ plies = 0

NextEnd ==
    \/ SelectCell(EndPlies)
    \/ CursorUp
    \/ CursorDown
    \/ CursorLeft
    \/ CursorRight
    \/ UnselectCell
    \/ Takeback

SpecEnd == InitEnd /\ [][NextEnd]_vars

\* games one quiet ply away from the 50-move rule, between two players and
\* against the engine
InitFifty ==
    /\ \E bot \in BOOLEAN : Holds(Position(RepetitionGrid, White, <<>>, 49, bot))
    /\ call = NoCall
    /\ plies = 0

SpecFifty == InitFifty /\ [][Next]_vars

\* two-player endings with a pawn one step from promotion, the cursor on
\* the pawn
InitCrown ==
    /\ \E s \in CrownPositions :
          \E c \in {d \in Squares : get(s.board, d).kind = Pawn} :
              Holds([s EXCEPT !.cursor_coordinates = c])
    /\ call = NoCall
    /\ plies = 0

SpecCrown == InitCrown /\ [][Next]_vars

\* the selection between two plies: select_cell selects a piece but applies
\* no ply
InitSelect ==
    /\ \E s \in SelectPositions : Holds(s)
    /\ call = NoCall
    /\ plies = 0

NextSelect ==
    \/ SelectCell(0)
    \/ CursorUp
    \/ CursorDown
    \/ CursorLeft
    \/ CursorRight
    \/ UnselectCell
    \/ Takeback

SpecSelect == InitSelect /\ [][NextSelect]_vars

\* the two-player game from Board::default() after e2-e4 and d7-d5, White
\* having selected a piece and brought the cursor to one of its destinations
InitTurn ==
    /\ \E c \in OwnSquares(OpeningGame) :
          \E t \in Range(get_authorized_positions(
                             OpeningGame, get_piece_type(OpeningGame.board, c),
                             White, c)) :
              Holds(Poised(OpeningGame, <<c, t>>))
    /\ call = NoCall
    /\ plies = 0

NextTurn ==
    \/ SelectCell(GamePlies)
    \/ UnselectCell
    \/ Takeback

SpecTurn == InitTurn /\ [][NextTurn]_vars

\* every operation of the Board on games that are played to a draw through
\* select_cell; move_piece is called directly once the game is drawn
InitDrawn ==
    /\ \E s \in DrawnPositions : Holds(s)
    /\ call = NoCall
    /\ plies = 0

MovePieceDrawn ==
    /\ ~panicked
    /\ is_draw
    /\ plies <= MaxPlies
    /\ \E m \in MoveArguments(Self) :
          Becomes(move_piece(Self, m[1], m[2]), "move_piece", m[1], m[2])
    /\ plies' = plies + 1

NextDrawn ==
    \/ SelectCell(MaxPlies)
    \/ CursorUp
    \/ CursorDown
    \/ CursorLeft
    \/ CursorRight
    \/ UnselectCell
    \/ PromotePiece
    \/ MovePieceDrawn
    \/ Takeback

SpecDrawn == InitDrawn /\ [][NextDrawn]_vars

\* direct calls of move_piece and takeback on a Board
InitApi ==
    /\ \E s \in ApiPositions : Holds(s)
    /\ call = NoCall
    /\ plies = 0

NextApi ==
    \/ MovePiece
    \/ Takeback

SpecApi == InitApi /\ [][NextApi]_vars

\* move_piece called on a Board built with a history
InitHist ==
    /\ \E s \in HistPositions : Holds(s)
    /\ call = NoCall
    /\ plies = 0

NextHist == MovePiece

SpecHist == InitHist /\ [][NextHist]_vars

\* fen_position and move_piece called on Boards with and without a history
InitFen ==
    /\ \E s \in FenPositions : Holds(s)
    /\ call = NoCall
    /\ plies = 0

NextFen ==
    \/ MovePiece
    \/ FenPosition

SpecFen == InitFen /\ [][NextFen]_vars

\* the move generators called on Boards built with Board::new
InitPieces ==
    /\ \E s \in PiecePositions : Holds(s)
    /\ call = NoCall
    /\ plies = 0

NextPieces ==
    \/ PieceMove
    \/ AuthorizedPositions
    \/ ProtectedPositions
    \/ IsGettingChecked

SpecPieces == InitPieces /\ [][NextPieces]_vars

\* move_piece, promote_piece and takeback on Boards with pawns about to
\* promote
InitPromo ==
    /\ \E col \in 3..5, turn \in PieceColor :
          Holds(Position(PromotionGrid(col), turn, <<>>, 0, FALSE))
    /\ call = NoCall
    /\ plies = 0

NextPromo ==
    \/ MovePiece
    \/ PromotePiece
    \/ Takeback

SpecPromo == InitPromo /\ [][NextPromo]_vars

\* Boards imported with from_fen and played on with move_piece
InitImport ==
    /\ Holds(BoardDefault)
    /\ call = NoCall
    /\ plies = 0

NextImport ==
    \/ FromFen
    \/ MovePiece

SpecImport == InitImport /\ [][NextImport]_vars

\* Coordinates built with Coords::new
InitCoords ==
    /\ Holds(BoardDefault)
    /\ call = NoCall
    /\ plies = 0

SpecCoords == InitCoords /\ [][CoordsNew]_vars

\* the special moves, played through select_cell or by direct calls of
\* move_piece, and taken back
InitMoves ==
    /\ \E s \in MovesPositions :
          \/ Holds(s)
          \/ \E m \in SpecialPlies(s) : Holds(Poised(s, m))
    /\ call = NoCall
    /\ plies = 0

NextMoves ==
    \/ SelectCell(ApiCalls)
    \/ MoveAnyPiece
    \/ TakebackOnce
    \/ PromotePiece

SpecMoves == InitMoves /\ [][NextMoves]_vars

----------------------------------------------------------------------------
(* Properties *)

\* the side to move of s is in check
InCheck(s) == is_getting_checked(s.board, s.player_turn, s.move_history)

\* the authorized positions of the piece of the side to move on the square c
Destinations(s, c) ==
    get_authorized_positions(s, get_piece_type(s.board, c), s.player_turn, c)

\* a piece of the side to move, anywhere on the 64 squares, has an
\* authorized destination
HasMove(s) == \E c \in OwnSquares(s) : Destinations(s, c) # <<>>

Stalemate(s) == ~HasMove(s) /\ ~InCheck(s)

\* C1: is_checkmate() is true iff the side to move is in check and no piece
\* of that side, on any of the 64 squares, has an authorized destination
C1_CheckmateIff == IsCheckmate(Self) <=> (InCheck(Self) /\ ~HasMove(Self))

\* C2: is_draw() is true iff the side to move is stalemated, or the counter
\* of plies without pawn move or capture equals 50, or draw_by_repetition()
\* holds; so it is false in a checkmate where neither of the last two holds
C2_DrawIff ==
    IsDraw(Self) <=> (Stalemate(Self)
                      \/ consecutive_non_pawn_or_capture = DrawCounter
                      \/ draw_by_repetition(Self))

\* the selected cell holds a piece of the side to move that has an
\* authorized destination
SelectionLegal(s) ==
    is_cell_selected(s) =>
        /\ get_piece_color(s.board, s.selected_coordinates) = s.player_turn
        /\ Destinations(s, s.selected_coordinates) # <<>>

\* the cursor is on an authorized position of the selected piece, a piece of
\* the side to move
MoveLegal(s) ==
    /\ get_piece_color(s.board, s.selected_coordinates) = s.player_turn
    /\ s.cursor_coordinates \in Range(Destinations(s, s.selected_coordinates))

\* C3: in the two-player game from Board::default(), after every operation a
\* cell is selected only if it holds a piece of the side to move with an
\* authorized destination, and wherever select_cell performs move_piece it
\* moves a piece of the side to move from the selected square to one of its
\* authorized positions
C3_SelectionAndMoveLegal ==
    /\ SelectionLegal(Self)
    /\ AppliesPly(Self) => MoveLegal(Self)

\* the simple moves of s: origin occupied, destination empty, neither
\* castling nor en passant nor a pawn reaching its last rank
SimpleMoves(s) ==
    {m \in Squares \X Squares :
        /\ get(s.board, m[1]) # None
        /\ get(s.board, m[2]) = None
        /\ ~is_latest_move_castling(s, m[1], m[2])
        /\ ~is_latest_move_en_passant(s, m[1], m[2])
        /\ ~(get_piece_type(s.board, m[1]) = Pawn /\ m[2].row \in {0, 7})}

\* C4: for every simple move, move_piece(from, to) immediately followed by
\* takeback() leaves the grid as it was before move_piece
C4_SimpleMoveUndone ==
    \A m \in SimpleMoves(Self) : takeback(move_piece(Self, m[1], m[2])).board = board

\* the capturing plies of s: a piece of the side to move goes to an
\* authorized position that holds a piece of the other side
CapturingPlies(s) ==
    UNION {{<<c, t>> : t \in {d \in Range(Destinations(s, c)) :
                                 get_piece_color(s.board, d) = opposite(s.player_turn)}} :
           c \in OwnSquares(s)}

\* the ply of select_cell from the square `from` to the square `to`
PlyFromTo(s, from, to) ==
    PlyOf([s EXCEPT !.selected_coordinates = from, !.cursor_coordinates = to])

RECURSIVE Unwind(_)
\* takeback() repeated until the history is empty
Unwind(s) == IF s.move_history = <<>> THEN s ELSE Unwind(takeback(s))

\* C5: after a capturing ply, takeback() puts the moved piece back on its
\* origin and the captured piece, kind and color, back on the destination;
\* so when the plies played so far unwind to the starting layout, so do they
\* with a capturing ply added, the history ending empty
C5_CaptureUndone ==
    \A m \in CapturingPlies(Self) :
        /\ takeback(PlyFromTo(Self, m[1], m[2])).board = board
        /\ Unwind(Self).board = DefaultGrid =>
               /\ Unwind(PlyFromTo(Self, m[1], m[2])).board = DefaultGrid
               /\ Unwind(PlyFromTo(Self, m[1], m[2])).move_history = <<>>

\* the moves of s that move a piece other than a pawn to an empty square
QuietMoves(s) ==
    {m \in OwnSquares(s) \X Squares :
        get_piece_type(s.board, m[1]) # Pawn /\ get(s.board, m[2]) = None}

\* C6: in a position without stalemate or repetition, is_draw() is false
\* while the counter is 49, and true after one more move_piece that moves no
\* pawn and captures nothing
C6_FiftyMoveRule ==
    (/\ consecutive_non_pawn_or_capture = DrawCounter - 1
     /\ ~Stalemate(Self)
     /\ ~draw_by_repetition(Self))
    => /\ ~IsDraw(Self)
       /\ \A m \in QuietMoves(Self) : IsDraw(move_piece(Self, m[1], m[2]))

\* the last nine records of h are 4-periodic; h[n] is the last record
Periodic(h) ==
    LET n == Len(h) IN
    /\ n >= 9
    /\ h[n] = h[n - 4] /\ h[n - 4] = h[n - 8]
    /\ h[n - 1] = h[n - 5]
    /\ h[n - 2] = h[n - 6]
    /\ h[n - 3] = h[n - 7]

\* the cycle of tests::consecutive_position_draw played twice, then its
\* first ply again
RepeatedNinth == Append(RepetitionHistory, RepetitionHistory[1])

\* C7: draw_by_repetition() is true iff the history has at least 9 records
\* and its last 9 records are 4-periodic; a 4-ply cycle played twice is not
\* yet a draw and becomes one when the 9th ply repeats the first
C7_RepetitionPeriodic ==
    /\ draw_by_repetition(Self) <=> Periodic(move_history)
    /\ move_history = RepetitionHistory => ~draw_by_repetition(Self)
    /\ move_history = RepeatedNinth => draw_by_repetition(Self)

\* move_piece has played the 9th ply that repeats the first of the cycle
C7_NinthPlyRepeats ==
    /\ call.name = "move_piece"
    /\ move_history = RepeatedNinth
    /\ draw_by_repetition(Self)

\* C8: move_piece(from, to) with from or to outside the grid changes neither
\* the grid, the history, the 50-move counter, player_turn nor the flags,
\* and does not panic
C8_InvalidMoveIsNoOp ==
    [][(call'.name = "move_piece" /\ (~is_valid(call'.from) \/ ~is_valid(call'.to)))
       => /\ UNCHANGED <<board, move_history, consecutive_non_pawn_or_capture,
                         player_turn, is_draw, is_checkmate, is_promotion>>
          /\ ~panicked']_vars

\* move_piece was called from the square of a king to a square outside the grid
C8_InvalidMoveCalled ==
    /\ call.name = "move_piece"
    /\ get_piece_type(board, call.from) = King
    /\ ~is_valid(call.to)

UiCalls == {"select_cell", "cursor_up", "cursor_down", "cursor_left", "cursor_right"}

\* C9: once the is_checkmate or is_draw flag is set and no promotion is
\* pending, select_cell and the cursor operations change neither the grid,
\* the history, player_turn, the selection nor the cursor
C9_FrozenWhenOver ==
    [][((is_checkmate \/ is_draw) /\ ~is_promotion /\ call'.name \in UiCalls)
       => UNCHANGED <<board, move_history, player_turn, selected_coordinates,
                      cursor_coordinates>>]_vars

\* cursor_up was called with the checkmate flag set by a ply of select_cell
C9_CursorAfterCheckmate ==
    /\ is_checkmate /\ ~is_promotion
    /\ plies > 0
    /\ call.name = "cursor_up"

\* after the human's completed ply left the Board `after`, the engine to
\* move: the engine plays one ply and the turn is the human's again, unless
\* the ply delivered checkmate, and then the engine plays nothing
EngineFollows(after, human) ==
    IF IsCheckmate(after) THEN move_history' = after.move_history
    ELSE /\ player_turn' = human
         /\ Len(move_history') = Len(after.move_history) + 1

\* C10: against the engine, every completed human ply, one completed by
\* resolving a promotion included, is followed by exactly one engine ply
\* before select_cell returns, and by none when it delivered checkmate
C10_EngineReplies ==
    [][(is_game_against_bot /\ call'.name = "select_cell" /\ ~panicked')
       => /\ (AppliesPly(Self) /\ ~is_latest_move_promotion(PlyOf(Self)))
                 => EngineFollows(PlyOf(Self), player_turn)
          /\ is_promotion => EngineFollows(promote_piece(Self), opposite(player_turn))]_vars

FenFields(s) == Split(fen_position(s), " ")

\* the number of squares a rank of the piece placement describes
RECURSIVE RankSquares(_)
RankSquares(rank) ==
    IF rank = <<>> THEN 0
    ELSE (IF \E d \in 1..8 : DigitChars[d + 1] = Head(rank)
          THEN chtoi(Head(rank)) ELSE 1) + RankSquares(Tail(rank))

IsSquareName(field) ==
    /\ Len(field) = 2
    /\ \E col \in 0..7 : Letters[col + 1] = field[1]
    /\ \E rank \in 1..8 : DigitChars[rank + 1] = field[2]

\* C11: fen_position() returns exactly six non-empty fields separated by
\* single spaces: 8 ranks of 8 squares, the side to move, the castling
\* availability, the en passant target ('-' or a square), the half-move
\* clock and the full-move number
C11_SixFields ==
    LET f == FenFields(Self)
    IN /\ Len(f) = 6
       /\ \A i \in 1..6 : f[i] # <<>>
       /\ LET ranks == Split(f[1], "/")
          IN Len(ranks) = 8 /\ \A r \in 1..8 : RankSquares(ranks[r]) = 8
       /\ f[3] \in {<<"-">>, <<"k">>, <<"q">>, <<"k", "q">>}
       /\ f[4] = <<"-">> \/ IsSquareName(f[4])
       /\ f[5] = to_string(consecutive_non_pawn_or_capture)
       /\ f[6] = to_string(Len(move_history) \div 2)

\* the en passant field: the fourth field of the text
EnPassantField(s) == IF Len(FenFields(s)) >= 4 THEN FenFields(s)[4] ELSE <<>>

\* C12: the en passant field of fen_position() is a square name exactly when
\* the last history record is a pawn move over two rows, and '-' otherwise
C12_EnPassantField ==
    LET two_rows ==
            /\ move_history # <<>>
            /\ move_history[Len(move_history)].kind = Pawn
            /\ Abs(from_hist(Slice(move_history[Len(move_history)].code, 2, 4)).row
                   - from_hist(Slice(move_history[Len(move_history)].code, 0, 2)).row) = 2
    IN IF two_rows THEN IsSquareName(EnPassantField(Self))
       ELSE EnPassantField(Self) = <<"-">>

\* C13: the side to move field of fen_position(), the second field of the
\* text, is 'b' whatever player_turn is
C13_SideToMoveBlack ==
    Len(FenFields(Self)) >= 2 /\ FenFields(Self)[2] = <<"b">>

\* the squares of a Board that hold a bishop or a knight
Movers(s) == {c \in Squares : get(s.board, c).kind \in {Bishop, Knight}}

\* a move played on a copy of the grid: the piece leaves `from` and replaces
\* whatever stands on `to`
Played(b, from, to) == set(set(b, to, get(b, from)), from, None)

Sign(n) == IF n > 0 THEN 1 ELSE IF n < 0 THEN -1 ELSE 0
Aligned(a, b) ==
    a # b /\ (a.row = b.row \/ a.col = b.col \/ Abs(a.row - b.row) = Abs(a.col - b.col))
\* the squares strictly between two squares of one row, column or diagonal
Between(a, b) ==
    IF ~Aligned(a, b) THEN {}
    ELSE {x \in Squares :
             \E i \in 1..7 :
                /\ x = Coords(a.row + i * Sign(b.row - a.row), a.col + i * Sign(b.col - a.col))
                /\ i < Abs(b.row - a.row) \/ i < Abs(b.col - a.col)}

\* the pieces that give check to the king of the color
Checkers(b, color, history) ==
    {q \in Squares :
        /\ get(b, q) # None
        /\ get(b, q).color # color
        /\ get_king_coordinates(b, color)
               \in Range(protected_positions(get(b, q).kind, q, get(b, q).color, b, history))}

AuthorizedOf(s, c) ==
    Range(authorized_positions(get(s.board, c).kind, c, get(s.board, c).color, s.board,
                               s.move_history,
                               is_getting_checked(s.board, get(s.board, c).color,
                                                  s.move_history)))
RawOf(s, c) ==
    Range(piece_move(get(s.board, c).kind, c, get(s.board, c).color, s.board, FALSE,
                     s.move_history))

\* C14: the authorized positions of a bishop or knight are exactly the
\* positions of piece_move (no ally capture) whose move, played on a copy of
\* the board, leaves the own king not in check; when that king is in check
\* each of them captures a checking piece or stands between it and the king
C14_AuthorizedIsFilteredMove ==
    (call.name = "authorized_positions" /\ call.from \in Movers(Self)) =>
        LET c == call.from
            color == get(board, c).color
            checkers == Checkers(board, color, move_history)
            king == get_king_coordinates(board, color)
        IN /\ AuthorizedOf(Self, c) =
                 {t \in RawOf(Self, c) :
                     ~is_getting_checked(Played(board, c, t), color, move_history)}
           /\ checkers # {} =>
                 \A t \in AuthorizedOf(Self, c) :
                     \E q \in checkers : t = q \/ t \in Between(king, q)

\* a bishop whose king is in check has been asked for its authorized
\* positions and keeps some but not all of its moves
C14_BishopResolvesCheck ==
    /\ call.name = "authorized_positions"
    /\ get(board, call.from).kind = Bishop
    /\ is_getting_checked(board, get(board, call.from).color, move_history)
    /\ AuthorizedOf(Self, call.from) # {}
    /\ AuthorizedOf(Self, call.from) # RawOf(Self, call.from)

\* the enemy pieces that pin the piece on c to its own king: a queen, rook
\* or bishop on a line of its own through the king, with c the only piece
\* between them
Pinners(b, c) ==
    LET color == get(b, c).color
        king == get_king_coordinates(b, color)
    IN {q \in Squares :
           /\ get(b, q).color = opposite(color)
           /\ c \in Between(king, q)
           /\ \A x \in Between(king, q) \ {c} : get(b, x) = None
           /\ get(b, q).kind \in
                  (IF king.row = q.row \/ king.col = q.col
                   THEN {Rook, Queen} ELSE {Bishop, Queen})}

\* C15: a pinned bishop or knight keeps only moves on the line between its
\* king and the pinning piece, the capture of that piece included: a bishop
\* pinned on a diagonal keeps exactly the other squares of that line, and a
\* pinned knight keeps nothing
C15_PinnedStaysOnLine ==
    (call.name = "authorized_positions" /\ call.from \in Movers(Self)) =>
        LET c == call.from
            king == get_king_coordinates(board, get(board, c).color)
        IN \A q \in Pinners(board, c) :
              /\ AuthorizedOf(Self, c) \subseteq (Between(king, q) \cup {q})
              /\ get(board, c).kind = Knight => AuthorizedOf(Self, c) = {}
              /\ (get(board, c).kind = Bishop /\ king.row # q.row /\ king.col # q.col
                  /\ Checkers(board, get(board, c).color, move_history) = {}) =>
                     AuthorizedOf(Self, c) = (Between(king, q) \cup {q}) \ {c}

\* a bishop pinned on a diagonal by a queen has been asked for its
\* authorized positions and may capture the queen
C15_PinnedPieceAsked ==
    /\ call.name = "authorized_positions"
    /\ get(board, call.from).kind = Bishop
    /\ \E q \in Pinners(board, call.from) :
          get(board, q).kind = Queen /\ q \in AuthorizedOf(Self, call.from)

Diagonals == {<<-1, -1>>, <<1, 1>>, <<1, -1>>, <<-1, 1>>}
Step(c, d, i) == Coords(c.row + d[1] * i, c.col + d[2] * i)

\* the squares of the direction d from c that a sliding piece of the color
\* reaches: every square before the first occupied one, and that one if it
\* holds an enemy (or, with_ally, any piece); with through_king the enemy
\* king does not count as occupied
Reach(b, c, d, color, through_king, with_ally) ==
    LET Open(x) ==
            \/ get(b, x) = None
            \/ through_king /\ get(b, x) = Some(King, opposite(color))
    IN {x \in Squares :
           \E i \in 1..7 :
              /\ x = Step(c, d, i)
              /\ \A j \in 1..(i - 1) : Open(Step(c, d, j))
              /\ get(b, x) = None \/ get(b, x).color # color \/ with_ally}

\* C16: Bishop::piece_move without ally capture returns, on each of the four
\* diagonals, the empty squares up to the first occupied square or the edge
\* and that square iff it holds an enemy; on an empty board it returns both
\* diagonals without the origin (13 squares from row 4, col 4)
C16_BishopMoves ==
    (call.name = "piece_move" /\ get(board, call.from).kind = Bishop) =>
        LET c == call.from
            moves == BishopMove(c, get(board, c).color, board, FALSE)
        IN /\ Range(moves) =
                 UNION {Reach(board, c, d, get(board, c).color, FALSE, FALSE) : d \in Diagonals}
           /\ Len(moves) = Cardinality(Range(moves))
           /\ Occupied(Self) = {c} =>
                 /\ Range(moves) = {x \in Squares :
                                       x # c /\ Abs(x.row - c.row) = Abs(x.col - c.col)}
                 /\ c = Coords(4, 4) => Len(moves) = 13

\* piece_move was called for a bishop that can capture an enemy with a free
\* square behind it and that has an ally on another diagonal
C16_BishopMeetsPieces ==
    /\ call.name = "piece_move"
    /\ get(board, call.from).kind = Bishop
    /\ \E d \in Diagonals, i \in 1..6 :
          /\ Step(call.from, d, i) \in RawOf(Self, call.from)
          /\ get(board, Step(call.from, d, i)).color = opposite(get(board, call.from).color)
          /\ is_valid(Step(call.from, d, i + 1))
          /\ get(board, Step(call.from, d, i + 1)) = None
    /\ \E d \in Diagonals, i \in 1..7 :
          /\ is_valid(Step(call.from, d, i))
          /\ get(board, Step(call.from, d, i)).color = get(board, call.from).color
          /\ \A j \in 1..(i - 1) : get(board, Step(call.from, d, j)) = None

\* the squares an L-shaped jump away from c
Jumps(c) ==
    {x \in Squares :
        {Abs(x.row - c.row), Abs(x.col - c.col)} = {1, 2}}

\* C17: Knight::piece_move returns the squares of the board at the 8
\* L-shaped offsets from the origin, without those an ally stands on unless
\* ally captures are allowed, whatever stands between origin and target
C17_KnightMoves ==
    (call.name = "piece_move" /\ get(board, call.from).kind = Knight) =>
        LET c == call.from
            color == get(board, c).color
        IN \A allow \in BOOLEAN :
              /\ Range(KnightMove(c, color, board, allow)) =
                    {x \in Jumps(c) : allow \/ get(board, x).color # color}
              /\ Len(KnightMove(c, color, board, allow)) =
                    Cardinality(Range(KnightMove(c, color, board, allow)))

\* piece_move was called for a knight with an ally on one target, an enemy
\* on another and a piece right next to it
C17_KnightAmongPieces ==
    /\ call.name = "piece_move"
    /\ get(board, call.from).kind = Knight
    /\ \E x \in Jumps(call.from) : get(board, x).color = get(board, call.from).color
    /\ \E x \in Jumps(call.from) : get(board, x).color = opposite(get(board, call.from).color)
    /\ \E x \in Squares :
          /\ get(board, x) # None
          /\ {Abs(x.row - call.from.row), Abs(x.col - call.from.col)} \subseteq {0, 1}
          /\ x # call.from

ProtectedOf(s, c) ==
    Range(protected_positions(get(s.board, c).kind, c, get(s.board, c).color, s.board,
                              s.move_history))

\* C18: protected_positions of a bishop or knight is piece_move with ally
\* capture allowed: it holds the normal moves, the first ally met on each
\* bishop ray, every ally on a knight target, and a bishop ray runs through
\* the enemy king up to the next occupied square or the edge; a pin changes
\* nothing
C18_ProtectedPositions ==
    (call.name = "protected_positions" /\ call.from \in Movers(Self)) =>
        LET c == call.from
            kind == get(board, c).kind
            color == get(board, c).color
        IN /\ ProtectedOf(Self, c) = Range(piece_move(kind, c, color, board, TRUE, move_history))
           /\ RawOf(Self, c) \subseteq ProtectedOf(Self, c)
           /\ kind = Bishop =>
                 ProtectedOf(Self, c) =
                    UNION {Reach(board, c, d, color, TRUE, TRUE) : d \in Diagonals}
           /\ kind = Knight => ProtectedOf(Self, c) = Jumps(c)

\* protected_positions was called for a bishop whose ray runs through the
\* enemy king
C18_RayThroughKing ==
    /\ call.name = "protected_positions"
    /\ get(board, call.from).kind = Bishop
    /\ \E d \in Diagonals, i \in 1..6 :
          /\ Step(call.from, d, i) \in ProtectedOf(Self, call.from)
          /\ get(board, Step(call.from, d, i))
                = Some(King, opposite(get(board, call.from).color))
          /\ Step(call.from, d, i + 1) \in ProtectedOf(Self, call.from)

\* C19: is_getting_checked is true iff the king's square is among the
\* protected positions of an opposing piece; a rook on the king's row or
\* column gives check iff every square between them is empty
C19_CheckedIffProtected ==
    (call.name = "is_getting_checked") =>
        LET king == call.from
            color == get(board, king).color
        IN /\ is_getting_checked(board, color, move_history)
                <=> \E q \in Squares :
                       /\ get(board, q).color = opposite(color)
                       /\ king \in ProtectedOf(Self, q)
           /\ \A q \in Squares :
                 (/\ get(board, q) = Some(Rook, opposite(color))
                  /\ king.row = q.row \/ king.col = q.col) =>
                     (king \in ProtectedOf(Self, q)
                        <=> \A x \in Between(king, q) : get(board, x) = None)

\* is_getting_checked was called for a king with a rook on its file and a
\* piece of the rook's color between them
C19_RookBlocked ==
    /\ call.name = "is_getting_checked"
    /\ ~is_getting_checked(board, get(board, call.from).color, move_history)
    /\ \E q \in Squares :
          /\ get(board, q) = Some(Rook, opposite(get(board, call.from).color))
          /\ call.from.col = q.col
          /\ \E x \in Between(call.from, q) : get(board, x).color = get(board, q).color

\* the last row of a color
LastRow(color) == IF color = White THEN 0 ELSE 7

\* the moves that bring a pawn of the side to move to its last row
PromotingMoves(s) ==
    {m \in MoveArguments(s) :
        /\ is_valid(m[1]) /\ is_valid(m[2])
        /\ get(s.board, m[1]).kind = Pawn
        /\ m[2].row = LastRow(get(s.board, m[1]).color)}

\* C20: is_latest_move_promotion() is true iff the history is not empty and
\* the destination of its last record holds a pawn on the last row of its
\* color; it is true right after move_piece brings a pawn there and false
\* after promote_piece
C20_PromotionPending ==
    /\ is_latest_move_promotion(Self) <=>
          /\ move_history # <<>>
          /\ LET to == from_hist(Slice(move_history[Len(move_history)].code, 2, 4))
             IN /\ get(board, to).kind = Pawn
                /\ to.row = LastRow(get(board, to).color)
    /\ \A m \in PromotingMoves(Self) :
          /\ is_latest_move_promotion(move_piece(Self, m[1], m[2]))
          /\ \A k \in 0..3 :
                ~is_latest_move_promotion(
                    promote_piece([move_piece(Self, m[1], m[2]) EXCEPT !.promotion_cursor = k]))
    /\ (call.name = "move_piece" /\ is_valid(call.from) /\ is_valid(call.to)
        /\ get(board, call.to).kind = Pawn
        /\ call.to.row = LastRow(get(board, call.to).color)) =>
           is_latest_move_promotion(Self)
    /\ call.name = "promote_piece" => ~is_latest_move_promotion(Self)

\* a black pawn was brought to row 7 and promote_piece was called
C20_BlackPawnPromoted ==
    /\ call.name = "promote_piece"
    /\ move_history # <<>>
    /\ move_history[Len(move_history)].kind = Pawn
    /\ LastTo(Self).row = 7
    /\ get(board, LastTo(Self)).color = Black
    /\ get(board, LastTo(Self)).kind # Pawn

\* the destinations the selection cursor cycles through, in the order of the
\* cycle: index 0 first
CycleOf(s) ==
    Sort(get_authorized_positions(s, get_piece_type(s.board, s.selected_coordinates),
                                  get_piece_color(s.board, s.selected_coordinates),
                                  s.selected_coordinates))

RowMajorLess(a, b) == a.row < b.row \/ (a.row = b.row /\ a.col < b.col)

\* C21: the order of Coords is row-major, and so is the list of destinations
\* the selection cursor cycles through; the cursor stands on the destination
\* of index selected_piece_cursor of that list
C21_RowMajorOrder ==
    /\ \A a, b \in Squares : CoordsLess(a, b) <=> RowMajorLess(a, b)
    /\ (is_cell_selected(Self) /\ call.name = "select_cell") =>
          LET cycle == CycleOf(Self)
          IN /\ \A i, j \in 1..Len(cycle) : i < j => RowMajorLess(cycle[i], cycle[j])
             /\ cycle # <<>> => cursor_coordinates = cycle[selected_piece_cursor + 1]

\* a placement field of 8 ranks that each describe 8 squares with piece
\* letters and the digits 1 to 8
WellFormedPlacement(placement) ==
    /\ \A i \in 1..Len(placement) :
          \/ placement[i] = "/"
          \/ from_char(placement[i]) # None
          \/ \E d \in 1..8 : DigitChars[d + 1] = placement[i]
    /\ Len(Split(placement, "/")) = 8
    /\ \A r \in 1..8 : RankSquares(Split(placement, "/")[r]) = 8

\* C22: from_fen returns an error, without a panic, when the text has not
\* exactly 6 fields separated by spaces, or when the placement is well
\* formed and the side to move field starts with another character than
\* 'w' or 'b'; any other text with a well formed placement gives a Board
\* whose player_turn is the side named
C22_FromFenErrors ==
    call.name \in {"from_fen", "from_fen Err"} =>
        LET fields == Split(call.to, " ")
            side == IF Len(fields) >= 2 /\ fields[2] # <<>> THEN fields[2][1] ELSE ""
            Err == call.name = "from_fen Err" /\ ~panicked
        IN IF Len(fields) # 6 THEN Err
           ELSE WellFormedPlacement(fields[1]) =>
                   IF side \in {"w", "b"}
                   THEN /\ call.name = "from_fen" /\ ~panicked
                        /\ player_turn = (IF side = "w" THEN White ELSE Black)
                        /\ move_history = <<>>
                   ELSE Err

QuietCalls ==
    {"takeback", "promote_piece", "unselect_cell",
     "cursor_up", "cursor_down", "cursor_left", "cursor_right"}

\* C24: move_piece with valid coordinates sets the counter of plies without
\* pawn move or capture to 0 when the origin holds a pawn or the destination
\* is occupied, and otherwise adds 1 to it; takeback, promote_piece,
\* unselect_cell, the cursor operations and a select_cell that does not reach
\* move_piece leave the counter as it is
C24_CounterRule ==
    [][/\ (call'.name = "move_piece" /\ is_valid(call'.from) /\ is_valid(call'.to)
           /\ ~panicked')
          => consecutive_non_pawn_or_capture'
                 = (IF get_piece_type(board, call'.from) = Pawn
                       \/ get(board, call'.to) # None
                    THEN 0 ELSE consecutive_non_pawn_or_capture + 1)
       /\ (call'.name \in QuietCalls
           \/ (call'.name = "select_cell" /\ ~AppliesPly(Self)))
          => UNCHANGED consecutive_non_pawn_or_capture]_vars

\* the 4 digit code of a move from the square `from` to the square `to`
CodeOf(from, to) ==
    <<DigitChars[from.row + 1], DigitChars[from.col + 1],
      DigitChars[to.row + 1], DigitChars[to.col + 1]>>

\* the square a move of the piece of `from` to `to` is recorded with: for a
\* king that moves more than one column, two columns from its origin
RecordedTo(b, from, to) ==
    IF get_piece_type(b, from) = King /\ to.col > from.col + 1
    THEN Coords(to.row, from.col + 2)
    ELSE IF get_piece_type(b, from) = King /\ to.col < from.col - 1
    THEN Coords(to.row, from.col - 2)
    ELSE to

\* C25: a move_piece call with valid coordinates and an occupied origin
\* appends exactly one record, the kind of the piece of the origin with the
\* code from.row from.col to.row to.col, and keeps the earlier records; a
\* castling move is recorded with the king's landing square
C25_OneRecordPerMove ==
    [][(call'.name = "move_piece" /\ is_valid(call'.from) /\ is_valid(call'.to)
        /\ get(board, call'.from) # None /\ ~panicked')
       => move_history'
              = move_history
                \o <<[kind |-> get(board, call'.from).kind,
                      code |-> CodeOf(call'.from,
                                      RecordedTo(board, call'.from, call'.to))]>>]_vars

\* move_piece has castled on the king's side with the rook's corner as `to`
C25_CastlingRecorded ==
    /\ call.name = "move_piece"
    /\ call.from = Coords(7, 4) /\ call.to = Coords(7, 7)
    /\ move_history = <<HistRec(King, <<"7", "4", "7", "6">>)>>

CornerCol(kingside) == IF kingside THEN 7 ELSE 0
LandingCol(kingside) == IF kingside THEN 6 ELSE 2

\* on the row `line` of the grid b the king stands on column 4, a rook of its
\* color on the corner, and the squares between them are empty
CastleReadyAt(b, line, kingside) ==
    /\ b[line][4].kind = King
    /\ b[line][CornerCol(kingside)] = Some(Rook, b[line][4].color)
    /\ \A col \in (IF kingside THEN {5, 6} ELSE {1, 2, 3}) : b[line][col] = None

\* the grid b after the standard castling on the row `line`
Castled(b, line, kingside) ==
    [r \in 0..7 |-> [c \in 0..7 |->
        IF r # line THEN b[r][c]
        ELSE IF c = 4 \/ c = CornerCol(kingside) THEN None
        ELSE IF c = LandingCol(kingside) THEN b[line][4]
        ELSE IF c = (IF kingside THEN 5 ELSE 3) THEN b[line][CornerCol(kingside)]
        ELSE b[r][c]]]

\* C26: a castling of move_piece gives the standard castled grid: in a
\* two-player game with the rook's corner as `to`, called directly or through
\* select_cell, and in a game against the engine when Black's answer names
\* the king's landing square
C26_CastledGrid ==
    [][\A line \in {0, 7}, kingside \in BOOLEAN :
        /\ (/\ CastleReadyAt(board, line, kingside)
            /\ ~is_game_against_bot
            /\ \/ /\ call'.name = "move_piece"
                  /\ call'.from = Coords(line, 4)
                  /\ call'.to = Coords(line, CornerCol(kingside))
               \/ /\ call'.name = "select_cell"
                  /\ AppliesPly(Self)
                  /\ selected_coordinates = Coords(line, 4)
                  /\ cursor_coordinates = Coords(line, CornerCol(kingside)))
           => board' = Castled(board, line, kingside)
        /\ (/\ call'.name = "select_cell"
            /\ is_game_against_bot
            /\ AppliesPly(Self)
            /\ CastleReadyAt(PlyOf(Self).board, line, kingside)
            /\ move_history'
                   = PlyOf(Self).move_history
                     \o <<HistRec(King, CodeOf(Coords(line, 4),
                                               Coords(line, LandingCol(kingside))))>>)
           => board' = Castled(PlyOf(Self).board, line, kingside)]_vars

\* in a game against the engine, Black has answered with a castling on the
\* king's side
C26_EngineCastled ==
    /\ call.name = "select_cell"
    /\ is_game_against_bot
    /\ move_history # <<>>
    /\ move_history[Len(move_history)] = HistRec(King, <<"0", "4", "0", "6">>)
    /\ get(board, Coords(0, 6)) = Some(King, Black)
    /\ get(board, Coords(0, 5)) = Some(Rook, Black)

\* the move from `from` to `to` is, on the grid b, neither a pawn's move to an
\* empty square of another row and column nor a king's move of more than one
\* column
PlainMove(b, from, to) ==
    /\ ~(/\ get(b, from).kind = Pawn
         /\ from.row # to.row /\ from.col # to.col
         /\ get(b, to) = None)
    /\ ~(get(b, from).kind = King /\ Abs(from.col - to.col) > 1)

\* the step applies move_piece(from, to) with valid coordinates and nothing
\* else to the grid: a direct call, or a ply of select_cell in a two-player
\* game
MoveApplied(from, to) ==
    /\ is_valid(from) /\ is_valid(to)
    /\ ~panicked'
    /\ \/ call'.name = "move_piece" /\ call'.from = from /\ call'.to = to
       \/ /\ call'.name = "select_cell"
          /\ AppliesPly(Self) /\ ~is_game_against_bot
          /\ selected_coordinates = from /\ cursor_coordinates = to

\* C27: when move_piece moves a pawn of the side to move one row forward and
\* one column aside onto an empty square, the grid changes on three squares:
\* the origin and the square of the origin row and destination column are
\* emptied and the pawn stands on the destination; a move that is neither en
\* passant nor castling changes the origin and the destination only
C27_EnPassantFrame ==
    [][\A from, to \in Squares :
        MoveApplied(from, to) =>
           /\ (/\ get(board, from) = Some(Pawn, player_turn)
               /\ to.row = from.row + (IF player_turn = White THEN -1 ELSE 1)
               /\ Abs(to.col - from.col) = 1
               /\ get(board, to) = None)
              => \A c \in Squares :
                    get(board', c)
                        = (IF c = from \/ c = Coords(from.row, to.col) THEN None
                           ELSE IF c = to THEN Some(Pawn, player_turn)
                           ELSE get(board, c))
           /\ PlainMove(board, from, to)
              => \A c \in Squares \ {from, to} : get(board', c) = get(board, c)]_vars

\* Black has taken the white pawn of d4 en passant through select_cell
C27_BlackTookEnPassant ==
    /\ call.name = "select_cell"
    /\ move_history # <<>>
    /\ move_history[Len(move_history)] = HistRec(Pawn, <<"4", "4", "5", "3">>)
    /\ get(board, Coords(5, 3)) = Some(Pawn, Black)
    /\ get(board, Coords(4, 3)) = None
    /\ get(board, Coords(4, 4)) = None

\* C28: takeback on an empty history changes nothing; on a non-empty history
\* it removes the last record, keeps the earlier ones and passes the turn to
\* the other side
C28_TakebackPops ==
    [][call'.name = "takeback" =>
          /\ ~panicked'
          /\ IF move_history = <<>>
             THEN UNCHANGED <<board, cursor_coordinates, selected_coordinates,
                              selected_piece_cursor, old_cursor_position, player_turn,
                              move_history, is_draw, is_checkmate, is_promotion,
                              promotion_cursor, consecutive_non_pawn_or_capture,
                              is_game_against_bot>>
             ELSE /\ move_history' \o <<move_history[Len(move_history)]>> = move_history
                  /\ player_turn' # player_turn
                  /\ player_turn' \in PieceColor]_vars

\* takeback has removed the fourth record of a game of four plies
C28_FourthPlyTakenBack ==
    /\ call.name = "takeback"
    /\ Len(move_history) = 3
    /\ player_turn = Black
    /\ plies = 0

\* the last record of the history h is a pawn's move of one row and one column
LastIsPawnDiagonal(h) ==
    /\ h # <<>>
    /\ h[Len(h)].kind = Pawn
    /\ Abs(chtoi(h[Len(h)].code[3]) - chtoi(h[Len(h)].code[1])) = 1
    /\ Abs(chtoi(h[Len(h)].code[4]) - chtoi(h[Len(h)].code[2])) = 1

LastFrom(h) == Coords(chtoi(h[Len(h)].code[1]), chtoi(h[Len(h)].code[2]))
LastDest(h) == Coords(chtoi(h[Len(h)].code[3]), chtoi(h[Len(h)].code[4]))

\* the last record of the history h is an en passant capture on the grid b:
\* the pawn stands on its destination, and the record before is the
\* two-square advance of a pawn to the square beside the capturing pawn's
\* origin, on the destination's column, which is empty now
LastIsEnPassant(b, h) ==
    /\ LastIsPawnDiagonal(h)
    /\ Len(h) >= 2
    /\ get(b, LastDest(h)).kind = Pawn
    /\ get(b, Coords(LastFrom(h).row, LastDest(h).col)) = None
    /\ h[Len(h) - 1].kind = Pawn
    /\ Slice(h[Len(h) - 1].code, 2, 4)
           = <<DigitChars[LastFrom(h).row + 1], DigitChars[LastDest(h).col + 1]>>
    /\ Abs(chtoi(h[Len(h) - 1].code[3]) - chtoi(h[Len(h) - 1].code[1])) = 2

\* the history of s continues one of the games from Board::default()
FromStart(s) ==
    \E g \in GamePositions :
        /\ Len(s.move_history) >= Len(g.move_history)
        /\ SubSeq(s.move_history, 1, Len(g.move_history)) = g.move_history

\* C29: a takeback that undoes an en passant capture puts the capturing pawn
\* back on its origin, leaves the landing square empty and puts a pawn of the
\* captured side on the square beside the origin; and a game from the
\* starting layout that select_cell has continued with an en passant capture
\* unwinds to the starting grid
C29_EnPassantUndone ==
    [][/\ (call'.name = "takeback" /\ LastIsEnPassant(board, move_history))
          => LET pawn == get(board, LastDest(move_history))
             IN /\ get(board', LastFrom(move_history)) = pawn
                /\ get(board', LastDest(move_history)) = None
                /\ get(board', Coords(LastFrom(move_history).row,
                                      LastDest(move_history).col))
                       = Some(Pawn, opposite(pawn.color))
       /\ (call'.name = "select_cell" /\ FromStart(Self')
           /\ LastIsEnPassant(board', move_history'))
          => Unwind(Self').board = DefaultGrid]_vars

\* the last record of the history h is a castling of the side that is not to
\* move, standing castled on the grid b
LastIsCastling(b, h, turn, line, kingside) ==
    /\ h # <<>>
    /\ h[Len(h)] = HistRec(King, CodeOf(Coords(line, 4),
                                        Coords(line, LandingCol(kingside))))
    /\ line = (IF turn = Black THEN 7 ELSE 0)
    /\ b[line][LandingCol(kingside)] = Some(King, opposite(turn))
    /\ b[line][IF kingside THEN 5 ELSE 3] = Some(Rook, opposite(turn))
    /\ b[line][4] = None
    /\ b[line][CornerCol(kingside)] = None

\* C30: a takeback that undoes a castling ply puts the king back on its
\* origin and the rook, with the color of the castling side, back on the
\* corner of that side's home row, empties the two squares they stood on and
\* changes no other square
C30_CastlingUndone ==
    [][\A line \in {0, 7}, kingside \in BOOLEAN :
        (call'.name = "takeback"
         /\ LastIsCastling(board, move_history, player_turn, line, kingside))
        => /\ ~panicked'
           /\ \A c \in Squares :
                 get(board', c)
                     = (IF c = Coords(line, 4) THEN Some(King, opposite(player_turn))
                        ELSE IF c = Coords(line, CornerCol(kingside))
                        THEN Some(Rook, opposite(player_turn))
                        ELSE IF c = Coords(line, LandingCol(kingside))
                                \/ c = Coords(line, IF kingside THEN 5 ELSE 3)
                        THEN None
                        ELSE get(board, c))]_vars

\* White's castling, played through select_cell, has been taken back
C30_CastlingTakenBack ==
    /\ call.name = "takeback"
    /\ plies = 1
    /\ ~is_cell_selected(Self)
    /\ cursor_coordinates = Coords(7, 4)
    /\ board = CastleReadyGrid
    /\ move_history = <<>>
    /\ player_turn = White

\* the field of fen_position() that the en passant part writes: the third
\* field from the end of the text, before the two counters
EnPassantWritten(s) == FenFields(s)[Len(FenFields(s)) - 2]

\* the name of the square a pawn passes over on a two-square advance
PassedSquare(code) ==
    <<col_to_letter(chtoi(code[2]))>>
        \o to_string(8 - ((chtoi(code[1]) + chtoi(code[3])) \div 2))

\* C31: when the last ply was a two-square pawn advance, the en passant field
\* of fen_position() names the square the pawn passed over, the same file and
\* the rank between origin and destination, for a White and a Black advance
C31_EnPassantSquare ==
    did_pawn_move_two_cells(Self)
        => EnPassantWritten(Self)
               = PassedSquare(move_history[Len(move_history)].code)

\* C32: whenever a ply applied through select_cell brings
\* consecutive_non_pawn_or_capture to 50, is_draw is true when that call
\* returns and no further ply has been applied before the flag is set, between
\* two players and against the engine alike
C32_FiftiethPlyDraws ==
    [][(/\ call'.name = "select_cell"
        /\ ~panicked'
        /\ AppliesPly(Self)
        /\ PlyOf(Self).consecutive_non_pawn_or_capture = DrawCounter)
       => /\ is_draw'
          /\ move_history' = PlyOf(Self).move_history]_vars

\* C33: when a pending promotion is resolved through select_cell, the
\* terminal flags are re-evaluated on the position that contains the promoted
\* piece: if the side to move is then checkmated is_checkmate becomes true,
\* and if it is then stalemated is_draw becomes true
C33_PromotionFlags ==
    [][(call'.name = "select_cell" /\ is_promotion /\ ~panicked')
       => /\ (InCheck(Self') /\ ~HasMove(Self')) => is_checkmate'
          /\ Stalemate(Self') => is_draw']_vars

\* C34: while is_promotion is true no ply can be applied: select_cell only
\* replaces the pawn on the destination of the last history record by the
\* piece chosen by promotion_cursor (0 queen, 1 rook, 2 bishop, 3 knight)
\* keeping its color, then clears is_promotion and resets promotion_cursor to
\* 0; cursor_left and cursor_right change only promotion_cursor, cursor_up
\* and cursor_down change nothing; every other square, the history and
\* player_turn are unchanged
C34_PromotionPending ==
    [][(is_promotion /\ ~panicked')
       => /\ call'.name = "select_cell"
             => /\ move_history # <<>> => get(board, LastTo(Self)).kind = Pawn
                /\ board' = IF move_history = <<>> THEN board
                            ELSE set(board, LastTo(Self),
                                     Some(PromotionKinds[promotion_cursor + 1],
                                          get(board, LastTo(Self)).color))
                /\ ~is_promotion'
                /\ promotion_cursor' = 0
                /\ move_history' = move_history
                /\ player_turn' = player_turn
          /\ call'.name \in {"cursor_left", "cursor_right"}
             => Self' = [Self EXCEPT !.promotion_cursor = promotion_cursor']
          /\ call'.name \in {"cursor_up", "cursor_down"} => Self' = Self]_vars

\* the sorted authorized destinations of the selected piece
SelectedDestinations(s) ==
    Sort(get_authorized_positions(
             s, get_piece_type(s.board, s.selected_coordinates),
             get_piece_color(s.board, s.selected_coordinates),
             s.selected_coordinates))

\* the index lies in the list and the cursor is on the destination it names
OnDestination(s) ==
    LET sorted == SelectedDestinations(s) IN
    /\ s.selected_piece_cursor \in 0..(Len(sorted) - 1)
    /\ s.cursor_coordinates = sorted[s.selected_piece_cursor + 1]

\* k calls of cursor_right, of cursor_left
RECURSIVE RightSteps(_, _)
RightSteps(s, k) == IF k = 0 THEN s ELSE cursor_right(RightSteps(s, k - 1))
RECURSIVE LeftSteps(_, _)
LeftSteps(s, k) == IF k = 0 THEN s ELSE cursor_left(LeftSteps(s, k - 1))

\* C35: while a cell is selected and no takeback changes the grid,
\* selected_piece_cursor lies in [0, n-1], n the number of authorized
\* destinations of the selected piece, and cursor_coordinates is the
\* destination at that index of the sorted list; right after selection the
\* index is 0; cursor_right and cursor_down advance it by one modulo n,
\* cursor_left and cursor_up move it back by one modulo n, so n steps in one
\* direction return to the same destination and a step left undoes a step
\* right (the n steps are taken from the first destination: they pass
\* through every other one)
C35_SelectionCursor ==
    [][(/\ call'.name # "takeback"
        /\ ~panicked'
        /\ is_cell_selected(Self) => OnDestination(Self))
       => /\ is_cell_selected(Self') => OnDestination(Self')
          /\ (~is_cell_selected(Self) /\ is_cell_selected(Self'))
             => selected_piece_cursor' = 0
          /\ is_cell_selected(Self)
             => LET n == Len(SelectedDestinations(Self)) IN
                /\ call'.name \in {"cursor_right", "cursor_down"}
                   => /\ selected_coordinates' = selected_coordinates
                      /\ selected_piece_cursor' = (selected_piece_cursor + 1) % n
                      /\ cursor_left(Self') = Self
                      /\ selected_piece_cursor = 0 => RightSteps(Self, n) = Self
                /\ call'.name \in {"cursor_left", "cursor_up"}
                   => /\ selected_coordinates' = selected_coordinates
                      /\ selected_piece_cursor' = (selected_piece_cursor + n - 1) % n
                      /\ cursor_right(Self') = Self
                      /\ selected_piece_cursor = 0 => LeftSteps(Self, n) = Self]_vars

\* cursor_left on the first destination of a selected piece with several
\* destinations has brought the cursor to the last one
C35_WrappedToLast ==
    /\ call.name = "cursor_left"
    /\ is_cell_selected(Self)
    /\ Len(SelectedDestinations(Self)) > 2
    /\ selected_piece_cursor = Len(SelectedDestinations(Self)) - 1

\* C36: in a two-player game started from Board::default(), in every state
\* reachable through select_cell, the cursor operations, unselect_cell and
\* takeback, player_turn is White iff move_history holds an even number of
\* records
C36_TurnParity ==
    (player_turn = White) <=> (Len(move_history) % 2 = 0)

\* C37: move_piece with valid coordinates whose origin square is empty moves
\* nothing: the grid, in particular a piece standing on the destination
\* square, and the move history are unchanged
C37_EmptyOriginMovesNothing ==
    [][(/\ call'.name = "move_piece"
        /\ is_valid(call'.from) /\ is_valid(call'.to)
        /\ get(board, call'.from) = None)
       => /\ board' = board
          /\ move_history' = move_history]_vars

\* C38: takeback() changes only the grid, the move history and player_turn:
\* consecutive_non_pawn_or_capture, is_draw, is_checkmate, is_promotion,
\* promotion_cursor, the selection and the cursor keep their values, so the
\* 50-move counter is not rolled back together with the undone ply
C38_TakebackKeepsTheRest ==
    [][call'.name = "takeback"
       => /\ ~panicked'
          /\ UNCHANGED <<consecutive_non_pawn_or_capture, is_draw, is_checkmate,
                         is_promotion, promotion_cursor, selected_coordinates,
                         selected_piece_cursor, old_cursor_position,
                         cursor_coordinates, is_game_against_bot>>]_vars

\* a ply that moved no pawn and captured nothing has been taken back: the
\* grid and the history are those of OpeningGame again, the counter is still 1
C38_CounterNotRolledBack ==
    /\ call.name = "takeback"
    /\ plies = 1
    /\ board = OpeningGame.board
    /\ move_history = OpeningGame.move_history
    /\ player_turn = White
    /\ consecutive_non_pawn_or_capture = 1

\* C39: once the is_draw flag is true, no Board operation (select_cell, the
\* cursor operations, unselect_cell, promote_piece, move_piece, takeback)
\* sets it back to false, even when takeback returns the game to a position
\* that is not drawn
C39_DrawNeverCleared ==
    [][is_draw => is_draw']_vars

\* takeback has returned a drawn game to a position in which is_draw() does
\* not hold, and a later select_cell has left the flag true
C39_StillDrawnAfterTakeback ==
    /\ call.name = "select_cell"
    /\ is_draw
    /\ ~IsDraw(Self)
    /\ move_history = <<>>

\* C40: promotion_cursor is in {0, 1, 2, 3} in every reachable state: the
\* only operations that change it are cursor_right, which maps it to
\* (cursor + 1) mod 4, cursor_left, which maps 0 to 3 and otherwise subtracts
\* 1 (both while a promotion is pending), and promote_piece, called directly
\* or by select_cell, which resets it to 0; so the unreachable branch of
\* promote_piece is never taken
C40_PromotionCursorRange ==
    [][/\ promotion_cursor \in 0..3
       /\ promotion_cursor' \in 0..3
       /\ ~panicked'
       /\ promotion_cursor'
             = (IF is_promotion /\ call'.name = "cursor_right"
                THEN (promotion_cursor + 1) % 4
                ELSE IF is_promotion /\ call'.name = "cursor_left"
                THEN (IF promotion_cursor = 0 THEN 3 ELSE promotion_cursor - 1)
                ELSE IF call'.name = "promote_piece"
                        \/ (is_promotion /\ call'.name = "select_cell")
                THEN 0
                ELSE promotion_cursor)]_vars

\* cursor_left on the first choice of the promotion popup has brought the
\* cursor to the last one
C40_LeftOfQueenIsKnight ==
    /\ call.name = "cursor_left"
    /\ is_promotion
    /\ promotion_cursor = 3

====
